---- MODULE Spec2Model ----
(***************************************************************************)
(* Model of the state-machines service: the identifier scheme (NodeId,     *)
(* StateId) of src/src/ids.rs and the instantiation of a state chart by    *)
(* StateMachine::new of src/src/state_machine.rs.                          *)
(*                                                                         *)
(* Texts are sequences of one-character strings, so that formatting and    *)
(* regular-expression matching are computed character by character.        *)
(***************************************************************************)
EXTENDS Integers, Sequences, FiniteSets, TLC

VARIABLES
    text,       \* the text handed to the identifier operations
    ctor,       \* which constructor built the NodeId in held_node
    held_node,  \* Option<NodeId>: <<>> or <<id>>, the NodeId built last
    held_state, \* Option<StateId>: <<>> or <<id>>, the StateId built last
    call,       \* the last call and its result
    minted,     \* the UUIDs drawn from the random generator so far
    chart,      \* Option<Node>: the state chart handed to StateMachine::new
    machines,   \* the StateMachines built so far, in order of construction
    input,      \* the value handed to a conversion (a ValidatedValue, an error)
    db,         \* the rows of each table of the SQLite database, by rowid
    objs,       \* the structs the caller holds, each with its Option<i64> id
    warehouse   \* the Warehouse: its state charts and its state machines

vars == <<text, ctor, held_node, held_state, call, minted, chart, machines,
          input, db, objs, warehouse>>

----------------------------------------------------------------------------
(* Bounds *)

MaxLen == 3        \* longest text handed to NodeId::new / NodeId::from
MaxNodes == 3      \* most nodes in a state chart
MaxElems == 3      \* longest array in an input of Node::try_from
MaxRows == 2       \* most rows in a table of the database
MaxEntities == 2   \* most entities a caller of the Crud operations builds

----------------------------------------------------------------------------
(* Characters and texts *)

\* \p{L}: the letters that occur in the texts of the model
Letters == {"a", "b", "c", "d", "e", "l", "m", "n", "s", "t", "u"}
Digits == {"4", "7"}
\* \w
WordChars == Letters \cup Digits \cup {"_"}
\* [\w\.\-]
SegmentChars == WordChars \cup {".", "-"}

\* The characters of the input texts: a letter, a digit, the underscore,
\* the two punctuation characters of the pattern, the separator and a
\* character outside every class.
Alphabet == {"a", "7", "_", ".", "-", "/", " "}

RECURSIVE TextsOfLen(_)
TextsOfLen(n) ==
    IF n = 0 THEN {<<>>}
    ELSE {Append(t, c) : t \in TextsOfLen(n - 1), c \in Alphabet}

Paths == UNION {TextsOfLen(n) : n \in 0..MaxLen}

StartsWith(t, p) == Len(t) >= Len(p) /\ SubSeq(t, 1, Len(p)) = p
Drop(t, n) == SubSeq(t, n + 1, Len(t))

----------------------------------------------------------------------------
(* Results and errors *)

Ok(v) == [ok |-> TRUE, val |-> v]
Err(e) == [ok |-> FALSE, err |-> e]

InvalidNodeId(id) == [kind |-> "InvalidNodeId", id |-> id]
InvalidStateId(id) == [kind |-> "InvalidStateId", id |-> id]
NoRoot == [kind |-> "NoRoot"]

----------------------------------------------------------------------------
(* The two patterns.  Both are a fixed scheme followed by '/'-separated     *)
(* segments; they differ in the scheme and in the class of the first       *)
(* character.  The automaton below is the one of                           *)
(*     C [\w\.\-]* ( / \w [\w\.\-]* )*                                     *)
(* started in "letter" (C = \p{L}) or in "word" (C = \w).                  *)

Step(q, c) ==
    CASE q = "letter" -> IF c \in Letters THEN "segment" ELSE "fail"
      [] q = "word" -> IF c \in WordChars THEN "segment" ELSE "fail"
      [] q = "segment" -> IF c \in SegmentChars THEN "segment"
                          ELSE IF c = "/" THEN "word" ELSE "fail"
      [] OTHER -> "fail"

RECURSIVE Run(_, _)
Run(q, t) == IF t = <<>> THEN q ELSE Run(Step(q, Head(t)), Tail(t))

\* The longest prefix of t made of characters of the class cs.
RECURSIVE TakeWhile(_, _)
TakeWhile(t, cs) ==
    IF t = <<>> \/ Head(t) \notin cs THEN <<>>
    ELSE <<Head(t)>> \o TakeWhile(Tail(t), cs)

Scn == <<"s", "c", "n", ":", "/", "/", "/">>
Sms == <<"s", "m", "s", ":", "/", "/", "/">>

\* Accepts a first segment that starts with any word character.
NodeId_REGEX_word(id) ==
    IF StartsWith(id, Scn) /\ Run("word", Drop(id, Len(Scn))) = "segment"
    THEN [matched |-> TRUE, path |-> Drop(id, Len(Scn))]
    ELSE [matched |-> FALSE]

\* r.captures(id) for ^scn:///(?P<path>\p{L}[\w\.\-]*(/\w[\w\.\-]*)*)$
NodeId_REGEX(id) ==
    IF StartsWith(id, Scn) /\ Run("letter", Drop(id, Len(Scn))) = "segment"
    THEN [matched |-> TRUE, path |-> Drop(id, Len(Scn))]
    ELSE [matched |-> FALSE]

\* r.captures(id) for ^sms:///(?P<id>\w[\w\.-]*)(/\w[\w\.-]*)*$
StateId_REGEX(id) ==
    IF StartsWith(id, Sms) /\ Run("word", Drop(id, Len(Sms))) = "segment"
    THEN [matched |-> TRUE, id |-> TakeWhile(Drop(id, Len(Sms)), SegmentChars)]
    ELSE [matched |-> FALSE]

----------------------------------------------------------------------------
(* NodeId *)

NodeId_default == <<"s", "c", "n", ":", "/", "/", "/", "d", "e", "4", "u", "l", "t">>

\* Formats with a scheme of two slashes only.
NodeId_new_short(node_path) == <<"s", "c", "n", ":", "/", "/">> \o node_path

NodeId_new(node_path) == Scn \o node_path

\* impl From<&str> for NodeId
NodeId_from(value) == value

NodeId_path(self) ==
    LET captures == NodeId_REGEX(self)
    IN  IF captures.matched THEN Ok(captures.path) ELSE Err(InvalidNodeId(self))

----------------------------------------------------------------------------
(* StateId *)

StateId_default == <<"s", "m", "s", ":", "/", "/", "/", "d", "e", "4", "u", "l", "t">>

StateId_id(self) ==
    LET captures == StateId_REGEX(self)
    IN  IF captures.matched THEN Ok(captures.id) ELSE Err(InvalidStateId(self))

\* The values of Uuid::new_v4() in its hyphenated form, shortened to two
\* groups: hexadecimal digits separated by '-'.  A value is drawn once: the
\* calls that draw one end when all are spent.
Uuids == { <<"a", "7", "-", "4", "e">>,
           <<"7", "a", "-", "e", "4">> }

\* Formats the instance and the path without the separating '/'.
StateId_new_glued(node_id, uuid) ==
    LET path == NodeId_path(node_id)
    IN  IF path.ok THEN Ok(Sms \o uuid \o path.val) ELSE Err(path.err)

\* Formats the text of the NodeId without asking for its path.
StateId_new_unchecked(node_id, uuid) == Ok(Sms \o uuid \o <<"/">> \o node_id)

\* Uses one fixed instance segment instead of a new UUID.
StateId_new_fixed(node_id, uuid) ==
    LET path == NodeId_path(node_id)
    IN  IF path.ok THEN Ok(Sms \o <<"a", "7", "-", "4", "e">> \o <<"/">> \o path.val)
        ELSE Err(path.err)

\* uuid is the value Uuid::new_v4() returns in this call.
StateId_new(node_id, uuid) ==
    LET path == NodeId_path(node_id)
    IN  IF path.ok THEN Ok(Sms \o uuid \o <<"/">> \o path.val) ELSE Err(path.err)

\* Appends the path of the node to the whole text of the machine.
StateId_new_with_node_appended(machine, node_id) ==
    LET id == StateId_id(machine)
        path == NodeId_path(node_id)
    IN  IF ~id.ok THEN Err(id.err)
        ELSE IF ~path.ok THEN Err(path.err)
        ELSE Ok(machine \o <<"/">> \o path.val)

StateId_new_with_node(machine, node_id) ==
    LET id == StateId_id(machine)
        path == NodeId_path(node_id)
    IN  IF ~id.ok THEN Err(id.err)
        ELSE IF ~path.ok THEN Err(path.err)
        ELSE Ok(Sms \o id.val \o <<"/">> \o path.val)

----------------------------------------------------------------------------
(* The identifier operations, applied to one input text.                   *)

\* Full texts handed to From<&str>: the ids of the tests and of default(),
\* an id of the other scheme and an id with a nested path.
RawTexts == { <<"s", "c", "n", ":", "/", "/", "/", "a">>,
              <<"s", "c", "n", ":", "/", "/", "/", "a", "/", "b">>,
              <<"s", "c", "n", ":", "/", "/", "/", "7">>,
              <<"s", "c", "n", ":", "/", "/", "a">>,
              <<"s", "m", "s", ":", "/", "/", "/", "a">> }

Texts == Paths \cup RawTexts

NoCall == [op |-> "none"]
NoChart == <<>>
NoInput == <<>>
\* No Warehouse was built.
NoWarehouse == <<>>
\* The tables of the database, each without a row.
NoRows == [Parameter |-> <<>>, VariableDeclaration |-> <<>>, Entity |-> <<>>]

InitIds ==
    /\ text \in Texts
    /\ ctor = "none"
    /\ held_node = <<>>
    /\ held_state = <<>>
    /\ call = NoCall
    /\ minted = {}
    /\ chart = NoChart
    /\ machines = <<>>
    /\ input = NoInput
    /\ db = NoRows
    /\ objs = <<>>
    /\ warehouse = NoWarehouse

\* let node_id = NodeId::new(text);
NodeIdNew ==
    /\ text \in Paths
    /\ ctor' = "new"
    /\ held_node' = <<NodeId_new(text)>>
    /\ call' = [op |-> "NodeId::new"]
    /\ UNCHANGED <<text, held_state, minted, chart, machines, input, db, objs,
                   warehouse>>

\* let node_id: NodeId = text.into();
NodeIdFrom ==
    /\ ctor' = "from"
    /\ held_node' = <<NodeId_from(text)>>
    /\ call' = [op |-> "NodeId::from"]
    /\ UNCHANGED <<text, held_state, minted, chart, machines, input, db, objs,
                   warehouse>>

\* let node_id = NodeId::default();
NodeIdDefault ==
    /\ ctor' = "default"
    /\ held_node' = <<NodeId_default>>
    /\ call' = [op |-> "NodeId::default"]
    /\ UNCHANGED <<text, held_state, minted, chart, machines, input, db, objs,
                   warehouse>>

\* node_id.path()
NodeIdPath ==
    /\ held_node # <<>>
    /\ call' = [op |-> "NodeId::path", res |-> NodeId_path(held_node[1])]
    /\ UNCHANGED <<text, ctor, held_node, held_state, minted, chart, machines, input, db, objs,
                   warehouse>>

\* let state_id = StateId::new(&node_id)?;  The UUID is drawn before the
\* path is asked for, so it is spent when the call fails, too.
StateIdNew ==
    /\ held_node # <<>>
    /\ \E uuid \in Uuids \ minted :
         LET res == StateId_new(held_node[1], uuid)
         IN  /\ minted' = minted \cup {uuid}
             /\ call' = [op |-> "StateId::new", uuid |-> uuid, res |-> res]
             /\ held_state' = IF res.ok THEN <<res.val>> ELSE held_state
    /\ UNCHANGED <<text, ctor, held_node, chart, machines, input, db, objs,
                   warehouse>>

\* let state_id = StateId::default();
StateIdDefault ==
    /\ held_state' = <<StateId_default>>
    /\ call' = [op |-> "StateId::default"]
    /\ UNCHANGED <<text, ctor, held_node, minted, chart, machines, input, db, objs,
                   warehouse>>

\* state_id.id()
StateIdId ==
    /\ held_state # <<>>
    /\ call' = [op |-> "StateId::id", res |-> StateId_id(held_state[1])]
    /\ UNCHANGED <<text, ctor, held_node, held_state, minted, chart, machines, input, db, objs,
                   warehouse>>

\* StateId::new_with_node(&state_id, &node_id)
StateIdNewWithNode ==
    /\ held_state # <<>>
    /\ held_node # <<>>
    /\ call' = [op |-> "StateId::new_with_node",
                res |-> StateId_new_with_node(held_state[1], held_node[1])]
    /\ UNCHANGED <<text, ctor, held_node, held_state, minted, chart, machines, input, db, objs,
                   warehouse>>

NextIds ==
    \/ NodeIdNew
    \/ NodeIdFrom
    \/ NodeIdDefault
    \/ NodeIdPath
    \/ StateIdNew
    \/ StateIdDefault
    \/ StateIdId
    \/ StateIdNewWithNode

SpecIds == InitIds /\ [][NextIds]_vars

----------------------------------------------------------------------------
(* Node: the fields StateMachine::new reads (id, start_node) and the        *)
(* children.                                                               *)

\* The ids of the nodes of the charts, as the build takes them from the
\* input (NodeId(id.into()), not validated): a root, a child, a grandchild,
\* and a text without the scheme.
ChartIds == { <<"s", "c", "n", ":", "/", "/", "/", "a">>,
              <<"s", "c", "n", ":", "/", "/", "/", "a", "/", "b">>,
              <<"s", "c", "n", ":", "/", "/", "/", "a", "/", "b", "/", "c">>,
              <<"a">> }

Options(S) == {<<>>} \cup {<<x>> : x \in S}

\* A chart of n nodes, numbered in the order of the input document (a node
\* before its children, a child before the next child): parent[k] is the
\* number of the parent of node k, ids[k] its id, starts[k] its start_node.
\* parent numbers the nodes of a tree in document order: the parent of k
\* comes before k, and every node between them lies below that parent.
IsDocumentOrder(n, parent) ==
    \A k \in 2..n :
        /\ parent[k] < k
        /\ \A j \in (parent[k] + 1)..(k - 1) : parent[j] >= parent[k]

RECURSIVE NodeAt(_, _, _, _, _)
\* The node numbered k, with its children in document order.
NodeAt(k, n, parent, ids, starts) ==
    LET children == {c \in (k + 1)..n : parent[c] = k}
        Nth(i) == CHOOSE c \in children : Cardinality({x \in children : x <= c}) = i
    IN  [id |-> ids[k],
         start_node |-> starts[k],
         nodes |-> [i \in 1..Cardinality(children) |->
                       NodeAt(Nth(i), n, parent, ids, starts)]]

Node_id(self) == self.id
Node_start_node(self) == self.start_node

----------------------------------------------------------------------------
(* StateMachine *)

\* Addresses the root instead of the start node.
StateMachine_new_root(state_chart, uuid) ==
    LET id == StateId_new(Node_id(state_chart), uuid)
    IN  IF ~id.ok THEN Err(id.err)
        ELSE IF Node_start_node(state_chart) # <<>>
        THEN LET current_state == StateId_new_with_node(id.val, Node_id(state_chart))
             IN  IF current_state.ok
                 THEN Ok([id |-> id.val, state_chart |-> state_chart,
                          current_state |-> current_state.val])
                 ELSE Err(current_state.err)
        ELSE Err(NoRoot)

\* Enters the start node of the start node in turn, and does not return
\* for a root that names itself.
StateMachine_new_descend(state_chart, uuid) ==
    LET id == StateId_new(Node_id(state_chart), uuid)
    IN  IF ~id.ok THEN Err(id.err)
        ELSE IF Node_start_node(state_chart) = <<Node_id(state_chart)>>
        THEN [ok |-> FALSE, diverges |-> TRUE]
        ELSE IF Node_start_node(state_chart) # <<>>
        THEN LET start_node == Node_start_node(state_chart)[1]
                 current_state == StateId_new_with_node(id.val, start_node)
             IN  IF current_state.ok
                 THEN Ok([id |-> id.val, state_chart |-> state_chart,
                          current_state |-> current_state.val])
                 ELSE Err(current_state.err)
        ELSE Err(NoRoot)

\* Looks for the start node before it builds the id of the machine.
StateMachine_new_start_first(state_chart, uuid) ==
    IF Node_start_node(state_chart) = <<>> THEN Err(NoRoot)
    ELSE LET id == StateId_new(Node_id(state_chart), uuid)
             start_node == Node_start_node(state_chart)[1]
         IN  IF ~id.ok THEN Err(id.err)
             ELSE LET current_state == StateId_new_with_node(id.val, start_node)
                  IN  IF current_state.ok
                      THEN Ok([id |-> id.val, state_chart |-> state_chart,
                               current_state |-> current_state.val])
                      ELSE Err(current_state.err)

\* uuid is the value Uuid::new_v4() returns inside StateId::new.
StateMachine_new(state_chart, uuid) ==
    LET id == StateId_new(Node_id(state_chart), uuid)
    IN  IF ~id.ok THEN Err(id.err)
        ELSE IF Node_start_node(state_chart) # <<>>
        THEN LET start_node == Node_start_node(state_chart)[1]
                 current_state == StateId_new_with_node(id.val, start_node)
             IN  IF current_state.ok
                 THEN Ok([id |-> id.val, state_chart |-> state_chart,
                          current_state |-> current_state.val])
                 ELSE Err(current_state.err)
        ELSE Err(NoRoot)

InitMachine ==
    \* A NodeId is unique in the system, so no two nodes of a chart share
    \* one; start_node is any id, whether a node of the chart has it or not.
    /\ \E n \in 1..MaxNodes :
         \E parent \in [2..n -> 1..n] :
           /\ IsDocumentOrder(n, parent)
           /\ \E ids \in [1..n -> ChartIds] :
                /\ \A j, k \in 1..n : j # k => ids[j] # ids[k]
                /\ \E starts \in [1..n -> Options(ChartIds)] :
                     chart = <<NodeAt(1, n, parent, ids, starts)>>
    /\ text = <<>>
    /\ ctor = "none"
    /\ held_node = <<>>
    /\ held_state = <<>>
    /\ call = NoCall
    /\ minted = {}
    /\ machines = <<>>
    /\ input = NoInput
    /\ db = NoRows
    /\ objs = <<>>
    /\ warehouse = NoWarehouse

\* StateMachine::new(chart): a machine is kept only when the call succeeds.
StateMachineNew ==
    /\ chart # <<>>
    /\ \E uuid \in Uuids \ minted :
         LET res == StateMachine_new(chart[1], uuid)
         IN  /\ minted' = minted \cup {uuid}
             /\ call' = [op |-> "StateMachine::new", uuid |-> uuid, res |-> res]
             /\ machines' = IF res.ok THEN Append(machines, res.val) ELSE machines
    /\ UNCHANGED <<text, ctor, held_node, held_state, chart, input, db, objs,
                   warehouse>>

NextMachine == StateMachineNew

SpecMachine == InitMachine /\ [][NextMachine]_vars

----------------------------------------------------------------------------
(* ValidatedValue (open_api_matcher): the variants the builders match on.   *)
(* An object is a map from its keys to values, an array a sequence.         *)

\* An i64 is an integer; an f64 is the decimal its shortest text denotes,
\* digits / 10^scale with no trailing zero after the point.
F64(digits, scale) == [digits |-> digits, scale |-> scale]

VString(s) == [tag |-> "String", str |-> s]
VInteger(i) == [tag |-> "Integer", int |-> i]
VNumber(n) == [tag |-> "Number", num |-> n]
VBool(b) == [tag |-> "Bool", bool |-> b]
VNone == [tag |-> "None"]
VArray(a) == [tag |-> "Array", items |-> a]
VObject(m) == [tag |-> "Object", map |-> m]

MandatoryAttributeMissing(name) == [kind |-> "MandatoryAttributeMissing", name |-> name]
UnexpectedType == [kind |-> "UnexpectedType"]
\* The error of the library's own conversions, wrapped by #[from].
ValidationError(e) == [kind |-> "ValidationError", source |-> e]

\* attributes.get(name): Option<&ValidatedValue>
get(attributes, name) ==
    IF name \in DOMAIN attributes THEN <<attributes[name]>> ELSE <<>>

\* Reports a missing attribute as a value of the wrong type.
get_mandatory_unexpected(attributes, name) ==
    IF get(attributes, name) # <<>>
    THEN Ok(get(attributes, name)[1])
    ELSE Err(UnexpectedType)

get_mandatory(attributes, name) ==
    IF get(attributes, name) # <<>>
    THEN Ok(get(attributes, name)[1])
    ELSE Err(MandatoryAttributeMissing(name))

\* let d: String = value.try_into()?  -- the conversion is the library's; a
\* value that is no string is refused with the library's error.
String_try_from(value) ==
    IF value.tag = "String" THEN Ok(value.str)
    ELSE Err(ValidationError("not a string"))

NodeId_try_from(value) ==
    IF value.tag = "String" THEN Ok(value.str) ELSE Err(UnexpectedType)

\* attribute?.try_into()?: the error of get_mandatory, or the conversion of
\* the value it found (converted).
Try(attribute, converted) ==
    IF attribute.ok THEN converted ELSE Err(attribute.err)

\* Some(built?) for the result of a conversion
Some(built) == IF built.ok THEN Ok(<<built.val>>) ELSE Err(built.err)

\* match attributes.get(name) { Some(v) => Some(v.try_into()?), None => None }
\* with converted the conversion of the value found.
Optional(attributes, name, converted) ==
    IF get(attributes, name) # <<>> THEN Some(converted) ELSE Ok(<<>>)

\* Reports the last field that fails instead of the first.
Struct_last(order, fields) ==
    LET failing == {i \in DOMAIN order : ~fields[order[i]].ok}
    IN  IF failing = {} THEN Ok([k \in DOMAIN fields |-> fields[k].val])
        ELSE Err(fields[order[CHOOSE i \in failing :
                                 \A j \in failing : i >= j]].err)

\* Ok(Self { field: ..., ... }) where the expressions of the fields end in
\* `?`: fields holds the result of each field, order names the fields in the
\* order the code evaluates them, and the first error ends the build.
Struct(order, fields) ==
    LET failing == {i \in DOMAIN order : ~fields[order[i]].ok}
    IN  IF failing = {} THEN Ok([k \in DOMAIN fields |-> fields[k].val])
        ELSE Err(fields[order[CHOOSE i \in failing :
                                 \A j \in failing : i <= j]].err)

\* Puts the item in front of the items built so far.
push_front(result, item) ==
    IF ~result.ok THEN result
    ELSE IF ~item.ok THEN Err(item.err)
    ELSE Ok(<<item.val>> \o result.val)

\* let item = element.try_into()?; result.push(item): result is the outcome
\* of the loop so far, item the conversion of the next element.
push(result, item) ==
    IF ~result.ok THEN result
    ELSE IF ~item.ok THEN Err(item.err)
    ELSE Ok(Append(result.val, item.val))

RECURSIVE collect(_, _)
\* for element in values { result.push(element.try_into()?) }: the outcome
\* of the loop over the first n elements, items their conversions.
collect(items, n) ==
    IF n = 0 THEN Ok(<<>>) ELSE push(collect(items, n - 1), items[n])

----------------------------------------------------------------------------
(* VariableValue, Parameter, ActionCall, PredicateCall, Guard, Transition,  *)
(* VariableDeclaration: built from a ValidatedValue.                        *)

VariableValue_String(s) == [variant |-> "String", str |-> s]
VariableValue_Integer(i) == [variant |-> "Integer", int |-> i]
VariableValue_Number(n) == [variant |-> "Number", num |-> n]
VariableValue_Boolean(b) == [variant |-> "Boolean", bool |-> b]
VariableValue_None == [variant |-> "None"]

VariableValue_default == VariableValue_None

\* Takes an array for None.
VariableValue_try_from_array(value) ==
    CASE value.tag = "String" -> Ok(VariableValue_String(value.str))
      [] value.tag = "Integer" -> Ok(VariableValue_Integer(value.int))
      [] value.tag = "Number" -> Ok(VariableValue_Number(value.num))
      [] value.tag = "Bool" -> Ok(VariableValue_Boolean(value.bool))
      [] value.tag \in {"None", "Array"} -> Ok(VariableValue_None)
      [] OTHER -> Err(UnexpectedType)

\* ValidatedValue::String(s) => Ok(VariableValue::String(s.clone())), ...,
\* _ => Err(StateChartError::UnexpectedType)
VariableValue_try_from(value) ==
    CASE value.tag = "String" -> Ok(VariableValue_String(value.str))
      [] value.tag = "Integer" -> Ok(VariableValue_Integer(value.int))
      [] value.tag = "Number" -> Ok(VariableValue_Number(value.num))
      [] value.tag = "Bool" -> Ok(VariableValue_Boolean(value.bool))
      [] value.tag = "None" -> Ok(VariableValue_None)
      [] OTHER -> Err(UnexpectedType)

\* Ok(Self { id: None, name, value })
Parameter_try_from(value) ==
    IF value.tag = "Object"
    THEN Struct(<<"name", "value">>,
                [id |-> Ok(<<>>),
                 name |-> Try(get_mandatory(value.map, "name"),
                              String_try_from(value.map["name"])),
                 value |-> Try(get_mandatory(value.map, "value"),
                               VariableValue_try_from(value.map["value"]))])
    ELSE Err(UnexpectedType)

parameters_from_validated_values(values) ==
    IF values.tag = "Array"
    THEN collect([i \in DOMAIN values.items |->
                     Parameter_try_from(values.items[i])],
                 Len(values.items))
    ELSE Err(UnexpectedType)

\* Ok(ActionCall { id: None, name, parameters })
ActionCall_try_from(value) ==
    IF value.tag = "Object"
    THEN Struct(<<"name", "parameters">>,
                [id |-> Ok(<<>>),
                 name |-> Try(get_mandatory(value.map, "name"),
                              String_try_from(value.map["name"])),
                 parameters |->
                     Try(get_mandatory(value.map, "parameters"),
                         parameters_from_validated_values(
                             value.map["parameters"]))])
    ELSE Err(UnexpectedType)

\* Ok(PredicateCall { id: None, name, parameters })
PredicateCall_try_from(value) ==
    IF value.tag = "Object"
    THEN Struct(<<"name", "parameters">>,
                [id |-> Ok(<<>>),
                 name |-> Try(get_mandatory(value.map, "name"),
                              String_try_from(value.map["name"])),
                 parameters |->
                     Try(get_mandatory(value.map, "parameters"),
                         parameters_from_validated_values(
                             value.map["parameters"]))])
    ELSE Err(UnexpectedType)

Guard_Event(e) == [variant |-> "Event", event |-> e]
Guard_Predicate(p) == [variant |-> "Predicate", call |-> p]

\* Takes every value that is no object for an event.
Guard_try_from_lenient(value) ==
    IF value.tag = "Object"
    THEN IF PredicateCall_try_from(value).ok
         THEN Ok(Guard_Predicate(PredicateCall_try_from(value).val))
         ELSE PredicateCall_try_from(value)
    ELSE Ok(Guard_Event(IF value.tag = "String" THEN value.str ELSE <<>>))

\* Ok(Guard::Event(event_id.into())), Ok(Guard::Predicate(value.try_into()?))
Guard_try_from(value) ==
    IF value.tag = "String" THEN Ok(Guard_Event(value.str))
    ELSE IF value.tag = "Object"
    THEN IF PredicateCall_try_from(value).ok
         THEN Ok(Guard_Predicate(PredicateCall_try_from(value).val))
         ELSE PredicateCall_try_from(value)
    ELSE Err(UnexpectedType)

\* Ok(Transition { id: None, guard, to, action })
Transition_try_from(value) ==
    IF value.tag = "Object"
    THEN Struct(<<"guard", "to", "action">>,
                [id |-> Ok(<<>>),
                 guard |-> Try(get_mandatory(value.map, "guard"),
                               Guard_try_from(value.map["guard"])),
                 to |-> Try(get_mandatory(value.map, "to"),
                            NodeId_try_from(value.map["to"])),
                 action |-> Optional(value.map, "action",
                                ActionCall_try_from(value.map["action"]))])
    ELSE Err(UnexpectedType)

\* Ok(VariableDeclaration { id: None, name, r#type, value })
VariableDeclaration_try_from(value) ==
    IF value.tag = "Object"
    THEN Struct(<<"name", "type", "value">>,
                [id |-> Ok(<<>>),
                 name |-> Try(get_mandatory(value.map, "name"),
                              String_try_from(value.map["name"])),
                 type |-> Try(get_mandatory(value.map, "type"),
                              String_try_from(value.map["type"])),
                 value |-> Try(get_mandatory(value.map, "value"),
                               VariableValue_try_from(value.map["value"]))])
    ELSE Err(UnexpectedType)

----------------------------------------------------------------------------
(* Node: built from a ValidatedValue. *)

\* Builds every element and reports the last error instead of the first.
transitions_from_validated_value_last(value) ==
    IF value.tag = "Array"
    THEN LET results == [i \in DOMAIN value.items |->
                            Transition_try_from(value.items[i])]
             failing == {i \in DOMAIN results : ~results[i].ok}
         IN  IF failing = {}
             THEN Ok([i \in DOMAIN results |-> results[i].val])
             ELSE Err(results[CHOOSE i \in failing :
                                 \A k \in failing : k <= i].err)
    ELSE Err(UnexpectedType)

transitions_from_validated_value(value) ==
    IF value.tag = "Array"
    THEN collect([i \in DOMAIN value.items |->
                     Transition_try_from(value.items[i])],
                 Len(value.items))
    ELSE Err(UnexpectedType)

\* Refuses an object without the key attributes.
attributes_from_validated_value_required(value) ==
    IF value # <<>>
    THEN IF value[1].tag = "Array"
         THEN collect([i \in DOMAIN value[1].items |->
                          VariableDeclaration_try_from(value[1].items[i])],
                      Len(value[1].items))
         ELSE Err(UnexpectedType)
    ELSE Err(UnexpectedType)

\* value is the Option attributes.get("attributes") returns.
attributes_from_validated_value(value) ==
    IF value # <<>>
    THEN IF value[1].tag = "Array"
         THEN collect([i \in DOMAIN value[1].items |->
                          VariableDeclaration_try_from(value[1].items[i])],
                      Len(value[1].items))
         ELSE Err(UnexpectedType)
    ELSE Ok(<<>>)

RECURSIVE Node_try_from(_)
\* value is the Option attributes.get("nodes") returns.
nodes_from_validated_value(value) ==
    IF value # <<>>
    THEN IF value[1].tag = "Array"
         THEN collect([i \in DOMAIN value[1].items |->
                          Node_try_from(value[1].items[i])],
                      Len(value[1].items))
         ELSE Err(UnexpectedType)
    ELSE Ok(<<>>)

\* The fields are built in the order of the code: on-entry, on-exit,
\* description, start-node, out-transitions, and in the struct expression
\* id, attributes, nodes.
Node_try_from(value) ==
    IF value.tag = "Object"
    THEN Struct(
             <<"on_entry", "on_exit", "description", "start_node",
               "out_transitions", "id", "attributes", "nodes">>,
             [on_entry |-> Optional(value.map, "on-entry",
                               ActionCall_try_from(value.map["on-entry"])),
              on_exit |-> Optional(value.map, "on-exit",
                              ActionCall_try_from(value.map["on-exit"])),
              description |-> Optional(value.map, "description",
                                  String_try_from(value.map["description"])),
              start_node |-> Optional(value.map, "start-node",
                                 NodeId_try_from(value.map["start-node"])),
              \* match attributes.get("out-transitions") { Some(ot) =>
              \* transitions_from_validated_value(ot)?, None => Vec::new() }
              out_transitions |->
                  IF get(value.map, "out-transitions") # <<>>
                  THEN transitions_from_validated_value(
                           value.map["out-transitions"])
                  ELSE Ok(<<>>),
              id |-> Try(get_mandatory(value.map, "id"),
                         NodeId_try_from(value.map["id"])),
              attributes |-> attributes_from_validated_value(
                                 get(value.map, "attributes")),
              nodes |-> nodes_from_validated_value(get(value.map, "nodes"))])
    ELSE Err(UnexpectedType)

----------------------------------------------------------------------------
(* The inputs of Node::try_from and the specification that builds them.     *)

IdA == NodeId_new(<<"a">>)
IdB == NodeId_new(<<"a", "/", "b">>)
IdC == NodeId_new(<<"a", "/", "c">>)
IdD == NodeId_new(<<"a", "/", "d">>)
IdE == NodeId_new(<<"a", "/", "d", "/", "e">>)

\* The object with the keys of fields that hold a value (Option as <<v>>).
Object(fields) ==
    VObject([k \in {x \in DOMAIN fields : fields[x] # <<>>} |-> fields[k][1]])

\* The values the inputs are made of: well formed and malformed parameters,
\* calls, transitions, variable declarations and child nodes, and the sets
\* the elements of an array are drawn from.
Sample ==
    LET GoodParameter ==
            VObject([name |-> VString(<<"p">>), value |-> VInteger(7)])
        ParameterNoValue == VObject([name |-> VString(<<"q">>)])
        OtherParameter ==
            VObject([name |-> VString(<<"q">>), value |-> VString(<<"s">>)])
        GoodAction ==
            VObject([name |-> VString(<<"a", "c", "t">>),
                     parameters |-> VArray(<<GoodParameter>>)])
        ActionNoName == VObject([parameters |-> VArray(<<>>)])
        ActionNoParameters == VObject([name |-> VString(<<"a", "c", "t">>)])
        ActionBadParameter ==
            VObject([name |-> VString(<<"a", "c", "t">>),
                     parameters |-> VArray(<<GoodParameter, ParameterNoValue>>)])
        GoodPredicate ==
            VObject([name |-> VString(<<"i", "s">>), parameters |-> VArray(<<>>)])
        TransitionGoB == VObject([guard |-> VString(<<"g", "o">>), to |-> VString(IdB)])
        TransitionIsC ==
            VObject([guard |-> GoodPredicate, to |-> VString(IdC),
                     action |-> GoodAction])
        TransitionNoTo == VObject([guard |-> VString(<<"g", "o">>)])
        TransitionNoGuard == VObject([to |-> VString(IdB)])
        TransitionBadAction ==
            VObject([guard |-> VString(<<"g", "o">>), to |-> VString(IdC),
                     action |-> ActionBadParameter])
        VariableInt ==
            VObject([name |-> VString(<<"v">>), type |-> VString(<<"i", "n", "t">>),
                     value |-> VInteger(4)])
        VariableBool ==
            VObject([name |-> VString(<<"w">>), type |-> VString(<<"b">>),
                     value |-> VBool(TRUE)])
        VariableNoType == VObject([name |-> VString(<<"v">>), value |-> VNone])
        VariableBadValue ==
            VObject([name |-> VString(<<"v">>), type |-> VString(<<"i", "n", "t">>),
                     value |-> VArray(<<>>)])
        LeafB == VObject([id |-> VString(IdB)])
        LeafC == VObject([id |-> VString(IdC), description |-> VString(<<"c">>)])
        ChildNoId == VObject([description |-> VString(<<"x">>)])
        \* A child whose own child holds a transition that does not build.
        ChildDeep ==
            VObject([id |-> VString(IdD),
                     nodes |-> VArray(<<VObject(
                         [id |-> VString(IdE)]
                         @@ ("out-transitions" :> VArray(<<TransitionNoGuard>>)))>>)])
        ChildBadTransition ==
            VObject([id |-> VString(IdB)]
                    @@ ("out-transitions" :> VArray(<<TransitionNoGuard>>)))
        TransitionElems ==
            {TransitionGoB, TransitionIsC, TransitionNoTo, TransitionBadAction}
        AttributeElems == {VariableInt, VariableBool, VariableNoType, VariableBadValue}
        NodeElems == {LeafB, LeafC, ChildNoId, ChildDeep}
        ParameterElems == {GoodParameter, OtherParameter, ParameterNoValue}
        \* A guard of every variant; the objects with and without a name and
        \* parameters, well formed and malformed.
        GuardElems ==
            {VString(<<"g", "o">>), VString(<<>>), VInteger(7),
             VNumber(F64(15, 1)), VBool(TRUE), VNone, VArray(<<>>),
             VArray(<<VString(<<"g", "o">>)>>), GoodPredicate}
            \cup {Object([name |-> name, parameters |-> parameters]) :
                      name \in {<<>>, <<VString(<<"i", "s">>)>>, <<VInteger(7)>>},
                      parameters \in {<<>>, <<VArray(<<GoodParameter>>)>>,
                                      <<VArray(<<ParameterNoValue>>)>>,
                                      <<VBool(FALSE)>>}}
        \* The value of a variable, of every variant.
        ValueElems ==
            {VString(<<"s">>), VString(<<>>), VInteger(7), VInteger(0),
             VInteger(-3), VNumber(F64(15, 1)), VNumber(F64(0, 0)),
             VBool(TRUE), VBool(FALSE), VNone, VArray(<<>>),
             VArray(<<VInteger(7)>>), VObject(<<>>), GoodParameter}
    IN  [GoodParameter |-> GoodParameter,
         ParameterNoValue |-> ParameterNoValue,
         OtherParameter |-> OtherParameter,
         GoodAction |-> GoodAction,
         ActionNoName |-> ActionNoName,
         ActionNoParameters |-> ActionNoParameters,
         ActionBadParameter |-> ActionBadParameter,
         GoodPredicate |-> GoodPredicate,
         TransitionGoB |-> TransitionGoB,
         TransitionIsC |-> TransitionIsC,
         TransitionNoTo |-> TransitionNoTo,
         TransitionNoGuard |-> TransitionNoGuard,
         TransitionBadAction |-> TransitionBadAction,
         VariableInt |-> VariableInt,
         VariableBool |-> VariableBool,
         VariableNoType |-> VariableNoType,
         VariableBadValue |-> VariableBadValue,
         LeafB |-> LeafB,
         LeafC |-> LeafC,
         ChildNoId |-> ChildNoId,
         ChildDeep |-> ChildDeep,
         ChildBadTransition |-> ChildBadTransition,
         TransitionElems |-> TransitionElems,
         AttributeElems |-> AttributeElems,
         NodeElems |-> NodeElems,
         ParameterElems |-> ParameterElems,
         GuardElems |-> GuardElems,
         ValueElems |-> ValueElems]

\* Every key absent, well formed, or malformed, in every combination.
FieldInputs(value) ==
    \E id \in {<<>>, <<VString(IdA)>>, <<VInteger(7)>>} :
    \E description \in {<<>>, <<VString(<<"d">>)>>, <<VBool(TRUE)>>} :
    \E on_entry \in {<<>>, <<Sample.GoodAction>>, <<Sample.ActionNoName>>} :
    \E on_exit \in {<<>>, <<Sample.GoodAction>>, <<Sample.ActionNoParameters>>} :
    \E start_node \in {<<>>, <<VString(IdB)>>, <<VNone>>} :
    \E out_transitions \in {<<>>, <<VArray(<<Sample.TransitionGoB>>)>>,
                             <<VArray(<<Sample.TransitionNoTo>>)>>} :
    \E attribs \in {<<>>, <<VArray(<<Sample.VariableInt>>)>>,
                     <<VArray(<<Sample.VariableNoType>>)>>} :
    \E nodes \in {<<>>, <<VArray(<<Sample.LeafB>>)>>,
                   <<VArray(<<Sample.ChildBadTransition>>)>>} :
        value = Object([id |-> id, description |-> description,
                        attributes |-> attribs, nodes |-> nodes]
                       @@ ("on-entry" :> on_entry) @@ ("on-exit" :> on_exit)
                       @@ ("start-node" :> start_node)
                       @@ ("out-transitions" :> out_transitions))

\* A root with an id and one array: of well formed and malformed elements,
\* or a value that is no array; or a root with an id and an on-entry call
\* with such an array of parameters; or a root with an id and one
\* transition under a guard of any variant, or one variable with a value
\* of any variant.
ArrayInputs(value) ==
    \/ \E key \in {"out-transitions", "attributes", "nodes"} :
        LET elems == CASE key = "out-transitions" -> Sample.TransitionElems
                       [] key = "attributes" -> Sample.AttributeElems
                       [] key = "nodes" -> Sample.NodeElems
        IN  \/ \E n \in 0..MaxElems : \E a \in [1..n -> elems] :
                  value = VObject([id |-> VString(IdA)] @@ (key :> VArray(a)))
            \/ value = VObject([id |-> VString(IdA)] @@ (key :> VInteger(7)))
    \/ \E n \in 0..MaxElems : \E a \in [1..n -> Sample.ParameterElems] :
          value = VObject([id |-> VString(IdA)]
                          @@ ("on-entry" :>
                                 VObject([name |-> VString(<<"a", "c", "t">>),
                                          parameters |-> VArray(a)])))
    \/ \E guard \in Sample.GuardElems :
          value = VObject([id |-> VString(IdA)]
                          @@ ("out-transitions" :>
                                 VArray(<<VObject([guard |-> guard,
                                                   to |-> VString(IdB)])>>)))
    \/ \E v \in Sample.ValueElems :
          value = VObject([id |-> VString(IdA),
                           attributes |->
                               VArray(<<VObject([name |-> VString(<<"v">>),
                                                 type |-> VString(<<"t">>),
                                                 value |-> v])>>)])

InitNode ==
    /\ \/ FieldInputs(input)
       \/ ArrayInputs(input)
       \* a value that is no object
       \/ input \in {VString(IdA), VInteger(7), VBool(FALSE), VNone,
                     VArray(<<Sample.LeafB>>)}
    /\ text = <<>>
    /\ ctor = "none"
    /\ held_node = <<>>
    /\ held_state = <<>>
    /\ call = NoCall
    /\ minted = {}
    /\ chart = NoChart
    /\ machines = <<>>
    /\ db = NoRows
    /\ objs = <<>>
    /\ warehouse = NoWarehouse

\* let node: Result<Node, StateChartError> = (&input).try_into();
NodeTryFrom ==
    /\ "tag" \in DOMAIN input
    /\ call' = [op |-> "Node::try_from", res |-> Node_try_from(input)]
    /\ UNCHANGED <<text, ctor, held_node, held_state, minted, chart, machines,
                   input, db, objs,
                   warehouse>>

SpecNode == InitNode /\ [][NodeTryFrom]_vars

----------------------------------------------------------------------------
(* StateChartError: its number, its message, and its conversion into the    *)
(* Value the response carries.                                              *)

Value_Integer(i) == [tag |-> "Integer", int |-> i]
Value_String(s) == [tag |-> "String", str |-> s]
Value_Object(content) == [tag |-> "Object", map |-> content]

\* Numbers NoRoot like InvalidStateId.
error_id_shared(error) ==
    CASE error.kind = "MandatoryAttributeMissing" -> 0
      [] error.kind = "UnexpectedType" -> 1
      [] error.kind = "ValidationError" -> 2
      [] error.kind = "InvalidNodeId" -> 3
      [] error.kind = "InvalidStateId" -> 4
      [] error.kind = "NoRoot" -> 4

error_id(error) ==
    CASE error.kind = "MandatoryAttributeMissing" -> 0
      [] error.kind = "UnexpectedType" -> 1
      [] error.kind = "ValidationError" -> 2
      [] error.kind = "InvalidNodeId" -> 3
      [] error.kind = "InvalidStateId" -> 4
      [] error.kind = "NoRoot" -> 5

\* format!("{}", error): the pieces of the #[error(..)] text of the variant,
\* in order, {0} replaced by the field.
Display(error) ==
    CASE error.kind = "MandatoryAttributeMissing" ->
             <<"Missing mandatory attribute '", error.name, "'.">>
      [] error.kind = "UnexpectedType" -> <<"Unexpected type provided!">>
      [] error.kind = "ValidationError" -> <<error.source>>
      [] error.kind = "InvalidNodeId" -> <<"NodeId isn't valid.">>
      [] error.kind = "InvalidStateId" -> <<"StateId isn't valid.">>
      [] error.kind = "NoRoot" -> <<"State chart is no root.">>

\* impl From<StateChartError> for Value
Value_from(error) ==
    Value_Object(("id" :> Value_Integer(error_id(error)))
                 @@ ("message" :> Value_String(Display(error))))

\* The names get_mandatory is called with.
\* The errors of every variant: the errors of the builders, and the errors
\* of the identifier operations for the texts an identifier can hold.
Errors(error) ==
    \/ \E name \in {"id", "name", "parameters", "value", "guard", "to", "type"} :
           error = MandatoryAttributeMissing(name)
    \/ error = UnexpectedType
    \/ error = ValidationError("not a string")
    \/ \E t \in Texts : error = InvalidNodeId(NodeId_from(t))
    \/ \E t \in Paths : error = InvalidNodeId(NodeId_new(t))
    \/ \E t \in Texts : error = InvalidStateId(t)
    \/ error = NoRoot

InitError ==
    /\ Errors(input)
    /\ text = <<>>
    /\ ctor = "none"
    /\ held_node = <<>>
    /\ held_state = <<>>
    /\ call = NoCall
    /\ minted = {}
    /\ chart = NoChart
    /\ machines = <<>>
    /\ db = NoRows
    /\ objs = <<>>
    /\ warehouse = NoWarehouse

\* response.content(err.into())
ErrorIntoValue ==
    /\ "kind" \in DOMAIN input
    /\ call' = [op |-> "Value::from", res |-> Value_from(input)]
    /\ UNCHANGED <<text, ctor, held_node, held_state, minted, chart, machines,
                   input, db, objs,
                   warehouse>>

SpecError == InitError /\ [][ErrorIntoValue]_vars

----------------------------------------------------------------------------
(* The requests on a running machine: the routes /send and /set-var of the  *)
(* request handler.  Both answer with the plain response of the operation:  *)
(* they read no machine, call no action and write no log entry.             *)

\* OpenApiResponse::new(op): no mime type and no content set.
OpenApiResponse_new == [mime_type |-> <<>>, content |-> <<>>]

ActionNamed(n) == VObject([name |-> VString(n), parameters |-> VArray(<<>>)])

\* The transitions a node of the chart can hold.
EngineTransitions ==
    { VObject([guard |-> VString(<<"g", "o">>), to |-> VString(IdC)]),
      VObject([guard |-> Sample.GoodPredicate, to |-> VString(IdC),
               action |-> ActionNamed(<<"t", "p">>)]),
      VObject([guard |-> VString(<<"g", "o">>), to |-> VString(IdE),
               action |-> ActionNamed(<<"t", "g">>)]),
      VObject([guard |-> VString(<<"u", "p">>), to |-> VString(IdB)]) }

\* The input of a chart: the root a with the children b (a leaf), c (a
\* leaf) and d (with the child e); b and e hold the transitions, the root
\* declares the variable v or nothing, start-node names b or e.
EngineChart(start_node, transitions, attribs) ==
    Object([id |-> <<VString(IdA)>>,
            attributes |-> attribs,
            nodes |-> <<VArray(<<
                VObject([id |-> VString(IdB)]
                        @@ ("on-exit" :> ActionNamed(<<"x", "b">>))
                        @@ ("out-transitions" :> VArray(transitions))),
                VObject([id |-> VString(IdC)]
                        @@ ("on-entry" :> ActionNamed(<<"n", "c">>))),
                VObject([id |-> VString(IdD),
                         nodes |-> VArray(<<
                             VObject([id |-> VString(IdE)]
                                     @@ ("on-entry" :> ActionNamed(<<"n", "e">>))
                                     @@ ("on-exit" :> ActionNamed(<<"x", "e">>))
                                     @@ ("out-transitions" :> VArray(transitions)))>>)]
                        @@ ("on-entry" :> ActionNamed(<<"n", "d">>))
                        @@ ("on-exit" :> ActionNamed(<<"x", "d">>)))>>)>>]
           @@ ("start-node" :> <<VString(start_node)>>))

\* The events and the variable names of the requests.

InitEngine ==
    /\ \E start_node \in {IdB, IdE} :
       \E n \in 0..MaxElems : \E transitions \in [1..n -> EngineTransitions] :
       \E attribs \in {<<>>, <<VArray(<<Sample.VariableInt>>)>>} :
           input = EngineChart(start_node, transitions, attribs)
    /\ text = <<>>
    /\ ctor = "none"
    /\ held_node = <<>>
    /\ held_state = <<>>
    /\ call = NoCall
    /\ minted = {}
    /\ chart = NoChart
    /\ machines = <<>>
    /\ db = NoRows
    /\ objs = <<>>
    /\ warehouse = NoWarehouse

\* let node: Node = (&input).try_into().unwrap();
BuildChart ==
    /\ "tag" \in DOMAIN input
    /\ chart = NoChart
    /\ Node_try_from(input).ok
    /\ chart' = <<Node_try_from(input).val>>
    /\ call' = [op |-> "Node::try_from", res |-> Node_try_from(input)]
    /\ UNCHANGED <<text, ctor, held_node, held_state, minted, machines,
                   input, db, objs,
                   warehouse>>

\* (&Method::POST, "/send/{state-machine-id}/{event-id}", _p, op): the
\* response is returned as it was made; executed and logged are the calls
\* the handler makes to the actions and to StateMachineLog::log, none.
HandleSend ==
    /\ \E i \in DOMAIN machines : \E event_id \in {<<"g", "o">>, <<"u", "p">>, <<"n", "o">>} :
          call' = [op |-> "POST /send", machine |-> i, event |-> event_id,
                   response |-> OpenApiResponse_new,
                   executed |-> <<>>, logged |-> <<>>]
    /\ UNCHANGED <<text, ctor, held_node, held_state, minted, chart, machines,
                   input, db, objs,
                   warehouse>>

\* (&Method::POST, "/set-var/{state-machine-id}/{variable-id}", _p, op)
HandleSetVar ==
    /\ \E i \in DOMAIN machines : \E variable_id \in {<<"v">>, <<"u">>} :
          call' = [op |-> "POST /set-var", machine |-> i,
                   variable |-> variable_id,
                   response |-> OpenApiResponse_new,
                   executed |-> <<>>, logged |-> <<>>]
    /\ UNCHANGED <<text, ctor, held_node, held_state, minted, chart, machines,
                   input, db, objs,
                   warehouse>>

NextEngine ==
    \/ BuildChart
    \/ StateMachineNew
    \/ HandleSend
    \/ HandleSetVar

SpecEngine == InitEngine /\ [][NextEngine]_vars

----------------------------------------------------------------------------
(* SQLite as the Crud implementations use it: the values of a row, the      *)
(* conversion of a bound text by the affinity of its column, the rowid of   *)
(* an insert, and the conversions of rusqlite when a column is read.        *)

DecimalDigits == <<"0", "1", "2", "3", "4", "5", "6", "7", "8", "9">>

RECURSIVE NatToText(_)
NatToText(n) ==
    IF n < 10 THEN <<DecimalDigits[n + 1]>>
    ELSE NatToText(n \div 10) \o <<DecimalDigits[(n % 10) + 1]>>

RECURSIVE TextToNat(_)
TextToNat(t) ==
    IF t = <<>> THEN 0
    ELSE 10 * TextToNat(SubSeq(t, 1, Len(t) - 1))
         + (CHOOSE d \in DOMAIN DecimalDigits :
                DecimalDigits[d] = t[Len(t)]) - 1

\* format!("{}", i) for an i64
i64_to_string(i) == IF i < 0 THEN <<"-">> \o NatToText(-i) ELSE NatToText(i)

\* format!("{}", n) for an f64: the shortest decimal, never an exponent.
f64_to_string(n) ==
    LET magnitude == NatToText(IF n.digits < 0 THEN -n.digits ELSE n.digits)
        all == IF Len(magnitude) > n.scale THEN magnitude
               ELSE [j \in 1..(n.scale + 1 - Len(magnitude)) |-> "0"]
                    \o magnitude
        whole == SubSeq(all, 1, Len(all) - n.scale)
        fraction == SubSeq(all, Len(all) - n.scale + 1, Len(all))
    IN  (IF n.digits < 0 THEN <<"-">> ELSE <<>>)
        \o whole
        \o (IF n.scale > 0 THEN <<".">> \o fraction ELSE <<>>)

SqlNull == [type |-> "null"]
SqlText(t) == [type |-> "text", text |-> t]
SqlInteger(i) == [type |-> "integer", int |-> i]
SqlReal(n) == [type |-> "real", real |-> n]

\* The value stored when a text is bound to a column of the affinity: a
\* column of INTEGER or REAL affinity turns a text that reads as a number
\* into the number, and every column keeps any other text as text.
Stored(affinity, t) ==
    LET negative == t # <<>> /\ t[1] = "-"
        unsigned == IF negative THEN Tail(t) ELSE t
        digits == SelectSeq(unsigned, LAMBDA c : c # ".")
        points == {j \in DOMAIN unsigned : unsigned[j] = "."}
        isDecimal ==
            /\ digits # <<>>
            /\ \A j \in DOMAIN digits :
                   \E d \in DOMAIN DecimalDigits : DecimalDigits[d] = digits[j]
            /\ Cardinality(points) <= 1
        scale == IF points = {} THEN 0
                 ELSE Len(unsigned) - (CHOOSE j \in points : TRUE)
        magnitude == TextToNat(digits)
        \* the zeros at the end of the fraction, which the number drops
        zeros == CHOOSE z \in 0..scale :
                     /\ magnitude % (10 ^ z) = 0
                     /\ z = scale \/ magnitude % (10 ^ (z + 1)) # 0
        signed(k) == IF negative THEN -k ELSE k
        real == SqlReal(F64(signed(magnitude \div (10 ^ zeros)), scale - zeros))
    IN  CASE affinity = "TEXT" -> SqlText(t)
          [] affinity = "INTEGER" ->
                 IF isDecimal /\ points = {} THEN SqlInteger(signed(magnitude))
                 ELSE IF isDecimal THEN real
                 ELSE SqlText(t)
          [] affinity = "REAL" -> IF isDecimal THEN real ELSE SqlText(t)

\* The rowid SQLite gives a new row of a table without AUTOINCREMENT: one
\* more than the largest rowid in the table, 1 in an empty table.
NextRowid(rows) ==
    IF DOMAIN rows = {} THEN 1
    ELSE 1 + CHOOSE r \in DOMAIN rows : \A q \in DOMAIN rows : q <= r

Panic(message) == [ok |-> FALSE, panic |-> message]

\* row.get(i)? of rusqlite for a Rust type: a String takes a text, an i64
\* an integer, an f64 a real or an integer, a bool an integer.
row_get(column, type) ==
    CASE type = "String" /\ column.type = "text" -> Ok(column.text)
      [] type = "i64" /\ column.type = "integer" -> Ok(column.int)
      [] type = "f64" /\ column.type = "real" -> Ok(column.real)
      [] type = "f64" /\ column.type = "integer" -> Ok(F64(column.int, 0))
      [] type = "bool" /\ column.type = "integer" -> Ok(column.int # 0)
      [] OTHER -> Err([kind |-> "InvalidColumnType"])

\* Crud::create of every entity, on a new connection: the tables exist and
\* are empty, and the caller holds no struct yet.
InitDb ==
    /\ db = NoRows
    /\ objs = <<>>
    /\ warehouse = NoWarehouse
    /\ text = <<>>
    /\ ctor = "none"
    /\ held_node = <<>>
    /\ held_state = <<>>
    /\ call = NoCall
    /\ minted = {}
    /\ chart = NoChart
    /\ machines = <<>>
    /\ input = NoInput

----------------------------------------------------------------------------
(* Parameter's Crud implementation over the table Parameter (name,          *)
(* value_type, string_value, integer_value, boolean_value, number_value).   *)

VariableValue_get_column_name(value) ==
    CASE value.variant = "String" -> "string_value"
      [] value.variant = "Integer" -> "integer_value"
      [] value.variant = "Number" -> "number_value"
      [] value.variant = "Boolean" -> "boolean_value"
      [] value.variant = "None" -> "string_value"

VariableValue_get_type(value) ==
    CASE value.variant = "String" -> "string"
      [] value.variant = "Integer" -> "integer"
      [] value.variant = "Number" -> "number"
      [] value.variant = "Boolean" -> "boolean"
      [] value.variant = "None" -> "string"

VariableValue_to_string(value) ==
    CASE value.variant = "String" -> value.str
      [] value.variant = "Integer" -> i64_to_string(value.int)
      [] value.variant = "Number" -> f64_to_string(value.num)
      [] value.variant = "Boolean" -> IF value.bool THEN <<"1">> ELSE <<"0">>
      [] value.variant = "None" -> <<>>

\* INSERT INTO Parameter (name, value_type, {value_column}) VALUES (?, ?, ?):
\* each text is stored by the affinity CREATE TABLE gives its column, and
\* the columns the statement does not name are NULL.
ParameterRow(name, value_type, value_column, value_text) ==
    LET affinity == ("string_value" :> "TEXT") @@ ("integer_value" :> "INTEGER")
                    @@ ("boolean_value" :> "INTEGER")
                    @@ ("number_value" :> "REAL")
    IN  [c \in {"name", "value_type"} \cup DOMAIN affinity |->
            CASE c = "name" -> SqlText(name)
              [] c = "value_type" -> SqlText(value_type)
              [] c = value_column -> Stored(affinity[c], value_text)
              [] OTHER -> SqlNull]

\* self.insert(connection): its result, the table and self after it.
Parameter_insert(self, rows) ==
    [res |-> Ok(NextRowid(rows)),
     rows |-> rows @@ (NextRowid(rows) :>
                          ParameterRow(self.name,
                                       VariableValue_get_type(self.value),
                                       VariableValue_get_column_name(self.value),
                                       VariableValue_to_string(self.value))),
     self |-> [self EXCEPT !.id = <<NextRowid(rows)>>]]

\* let value = match value_type.as_str() { ... }: the column of the type,
\* read as the Rust type of the variant.
Parameter_select_value(row) ==
    LET value_type == row["value_type"].text
        got == CASE value_type = "string" -> row_get(row["string_value"], "String")
                 [] value_type = "integer" -> row_get(row["integer_value"], "i64")
                 [] value_type = "number" -> row_get(row["number_value"], "f64")
                 [] value_type = "boolean" -> row_get(row["boolean_value"], "bool")
                 [] OTHER -> Panic("[Parameter::select()] Unexpected value type!")
    IN  IF ~got.ok THEN got
        ELSE CASE value_type = "string" -> Ok(VariableValue_String(got.val))
               [] value_type = "integer" -> Ok(VariableValue_Integer(got.val))
               [] value_type = "number" -> Ok(VariableValue_Number(got.val))
               [] value_type = "boolean" -> Ok(VariableValue_Boolean(got.val))

\* Ok(Some(Parameter { id: Some(row.get(0)?), name: row.get(1)?, value })),
\* or Ok(None) when no row has the rowid.
Parameter_select(rows, key_value) ==
    IF key_value \notin DOMAIN rows THEN Ok(<<>>)
    ELSE LET value == Parameter_select_value(rows[key_value])
             name == row_get(rows[key_value]["name"], "String")
         IN  IF ~value.ok THEN value
             ELSE IF ~name.ok THEN name
             ELSE Ok(<<[id |-> <<key_value>>, name |-> name.val,
                        value |-> value.val]>>)

\* The values of the Parameters a caller builds: every variant, the empty
\* string and the text of a number among the strings, negative and
\* fractional numbers.
ParameterValues ==
    {VariableValue_String(<<"a">>), VariableValue_String(<<>>),
     VariableValue_String(<<"7">>),
     VariableValue_Integer(0), VariableValue_Integer(-47),
     VariableValue_Number(F64(0, 0)), VariableValue_Number(F64(15, 1)),
     VariableValue_Number(F64(-25, 2)), VariableValue_Number(F64(2, 0)),
     VariableValue_Boolean(TRUE), VariableValue_Boolean(FALSE),
     VariableValue_None}

\* Of the structs the caller holds, the Parameters.
IsParameter(held) == DOMAIN held = {"id", "name", "value"}

\* p.insert(&connection), for a new Parameter { id: None, name, value } or
\* for one that was inserted before: a new row, and p.id is its rowid. objs
\* holds every Parameter as it was when its insert returned.
ParameterInsert ==
    /\ Cardinality(DOMAIN db.Parameter) < MaxRows
    /\ \E self \in [id : {<<>>}, name : {<<"p">>, <<"q">>},
                    value : ParameterValues]
                   \cup {objs[k] : k \in {j \in DOMAIN objs :
                                             IsParameter(objs[j])}} :
         /\ db' = [db EXCEPT !.Parameter = Parameter_insert(self, @).rows]
         /\ objs' = Append(objs, Parameter_insert(self, db.Parameter).self)
         /\ call' = [op |-> "Parameter::insert",
                     res |-> Parameter_insert(self, db.Parameter).res]
    /\ UNCHANGED <<text, ctor, held_node, held_state, minted, chart, machines,
                   input,
                   warehouse>>

\* Parameter::select(&connection, &key_value)
ParameterSelect ==
    /\ \E key_value \in 1..(MaxRows + 1) :
         call' = [op |-> "Parameter::select", key |-> key_value,
                  res |-> Parameter_select(db.Parameter, key_value)]
    /\ UNCHANGED <<text, ctor, held_node, held_state, minted, chart, machines,
                   input, db, objs,
                   warehouse>>

NextParam == ParameterInsert \/ ParameterSelect

SpecParam == InitDb /\ [][NextParam]_vars

----------------------------------------------------------------------------
(* VariableDeclaration's Crud implementation: create and insert.            *)

\* CREATE TABLE IF NOT EXISTS VariableDeclaration (...): the columns of the
\* table and the affinity of each.
VariableDeclaration_create ==
    ("name" :> "TEXT") @@ ("variable_type" :> "TEXT")
    @@ ("string_value" :> "TEXT") @@ ("integer_value" :> "INTEGER")
    @@ ("number_value" :> "REAL") @@ ("bool_value" :> "INTEGER")

\* self.insert(connection): its result, the table and self after it.
\* connection.prepare(&sql)? fails when the statement names a column the
\* table does not have; then no row is written and self.id is not set.
VariableDeclaration_insert(self, rows) ==
    LET value_column == VariableValue_get_column_name(self.value)
        columns == VariableDeclaration_create
    IN  IF value_column \notin DOMAIN columns
        THEN [res |-> Err([kind |-> "SqliteFailure"]), rows |-> rows,
              self |-> self]
        ELSE [res |-> Ok(NextRowid(rows)),
              rows |-> rows @@ (NextRowid(rows) :>
                  [c \in DOMAIN columns |->
                      CASE c = "name" -> SqlText(self.name)
                        [] c = "variable_type" ->
                               SqlText(VariableValue_get_type(self.value))
                        [] c = value_column ->
                               Stored(columns[c],
                                      VariableValue_to_string(self.value))
                        [] OTHER -> SqlNull]),
              self |-> [self EXCEPT !.id = <<NextRowid(rows)>>]]

\* Of the structs the caller holds, the VariableDeclarations.
IsVariableDeclaration(held) == "type" \in DOMAIN held

\* vd.insert(&connection), for a new VariableDeclaration { id: None, name,
\* type, value } or for one the caller holds. objs holds every declaration
\* as it was when its insert returned, the failed ones too.
VariableDeclarationInsert ==
    /\ Len(objs) < MaxRows
    /\ \E self \in [id : {<<>>}, name : {<<"v">>},
                    type : {<<"s">>, <<"i">>}, value : ParameterValues]
                   \cup {objs[k] : k \in {j \in DOMAIN objs :
                                             IsVariableDeclaration(objs[j])}} :
         /\ db' = [db EXCEPT !.VariableDeclaration =
                                  VariableDeclaration_insert(self, @).rows]
         /\ objs' = Append(objs, VariableDeclaration_insert(
                                     self, db.VariableDeclaration).self)
         /\ call' = [op |-> "VariableDeclaration::insert", self |-> self,
                     res |-> VariableDeclaration_insert(
                                 self, db.VariableDeclaration).res]
    /\ UNCHANGED <<text, ctor, held_node, held_state, minted, chart, machines,
                   input,
                   warehouse>>

SpecDeclaration == InitDb /\ [][VariableDeclarationInsert]_vars

----------------------------------------------------------------------------
(* The reference Crud entity of sql.rs over the table Entity (attribute_1   *)
(* VARCHAR(255), attribute_2 INTEGER); the key of a row is its rowid.       *)

Entity_new(attribute_1, attribute_2) ==
    [id |-> <<>>, attribute_1 |-> attribute_1, attribute_2 |-> attribute_2]

\* params![self.attribute_1, self.attribute_2]: a text and an integer, which
\* the columns store as they are.
EntityRow(self) ==
    [attribute_1 |-> SqlText(self.attribute_1),
     attribute_2 |-> SqlInteger(self.attribute_2)]

\* self.insert(connection): its result, the table and self after it.
Entity_insert(self, rows) ==
    IF self.id # <<>>
    THEN [res |-> Panic("Cannot insert the same entity twice!"),
          rows |-> rows, self |-> self]
    ELSE [res |-> Ok(<<>>),
          rows |-> rows @@ (NextRowid(rows) :> EntityRow(self)),
          self |-> [self EXCEPT !.id = <<NextRowid(rows)>>]]

\* self.update(connection): its result and the table after it. The
\* statement runs before the number of rows it touched is asserted.
Entity_update(self, rows) ==
    IF self.id = <<>>
    THEN [res |-> Panic("Cannot update an entity, which is not already in the database!"),
          rows |-> rows]
    ELSE IF self.id[1] \notin DOMAIN rows
    THEN [res |-> Panic("assertion failed"), rows |-> rows]
    ELSE [res |-> Ok(<<>>),
          rows |-> [rows EXCEPT ![self.id[1]] = EntityRow(self)]]

\* self.delete(connection): its result and the table after it.
Entity_delete(self, rows) ==
    IF self.id = <<>>
    THEN [res |-> Panic("Cannot delete an entity, which is not already in the database!"),
          rows |-> rows]
    ELSE IF self.id[1] \notin DOMAIN rows
    THEN [res |-> Panic("assertion failed"), rows |-> rows]
    ELSE [res |-> Ok(<<>>),
          rows |-> [r \in DOMAIN rows \ {self.id[1]} |-> rows[r]]]

\* Entity::select(connection, key): the first row found as
\* Ok(Some(Entity { id: Some(id), attribute_1, attribute_2 })), or Ok(None).
Entity_select(rows, key) ==
    IF key \notin DOMAIN rows THEN Ok(<<>>)
    ELSE LET attribute_1 == row_get(rows[key].attribute_1, "String")
             attribute_2 == row_get(rows[key].attribute_2, "i64")
         IN  IF ~attribute_1.ok THEN attribute_1
             ELSE IF ~attribute_2.ok THEN attribute_2
             ELSE Ok(<<[id |-> <<key>>, attribute_1 |-> attribute_1.val,
                        attribute_2 |-> attribute_2.val]>>)

\* The attribute values of the entities a caller builds.
AttributeValues == [attribute_1 : {<<"h">>, <<"w">>}, attribute_2 : {3, 4}]

\* Of the structs the caller holds, the entities: objs holds for each the
\* struct (self) and whether a delete of it has returned Ok (deleted).
IsEntity(held) == "self" \in DOMAIN held

\* let mut entity = Entity::new(attribute_1, attribute_2)
EntityNew ==
    /\ Len(objs) < MaxEntities
    /\ \E values \in AttributeValues :
         /\ objs' = Append(objs,
                [self |-> Entity_new(values.attribute_1, values.attribute_2),
                 deleted |-> FALSE])
         /\ call' = [op |-> "Entity::new"]
    /\ UNCHANGED <<text, ctor, held_node, held_state, minted, chart, machines,
                   input, db,
                   warehouse>>

\* entity.insert(&connection)
EntityInsert ==
    /\ \E k \in DOMAIN objs :
         /\ IsEntity(objs[k])
         /\ db' = [db EXCEPT !.Entity = Entity_insert(objs[k].self, @).rows]
         /\ objs' = [objs EXCEPT
                       ![k].self = Entity_insert(@, db.Entity).self]
         /\ call' = [op |-> "Entity::insert",
                     res |-> Entity_insert(objs[k].self, db.Entity).res]
    /\ UNCHANGED <<text, ctor, held_node, held_state, minted, chart, machines,
                   input,
                   warehouse>>

\* entity.attribute_1 = ...; entity.attribute_2 = ...;
\* entity.update(&connection)
EntityUpdate ==
    /\ \E k \in DOMAIN objs : \E values \in AttributeValues :
         /\ IsEntity(objs[k])
         /\ LET self == [objs[k].self EXCEPT
                           !.attribute_1 = values.attribute_1,
                           !.attribute_2 = values.attribute_2]
            IN  /\ db' = [db EXCEPT !.Entity = Entity_update(self, @).rows]
                /\ objs' = [objs EXCEPT ![k].self = self]
                /\ call' = [op |-> "Entity::update",
                            res |-> Entity_update(self, db.Entity).res]
    /\ UNCHANGED <<text, ctor, held_node, held_state, minted, chart, machines,
                   input,
                   warehouse>>

\* entity.delete(&connection)
EntityDelete ==
    /\ \E k \in DOMAIN objs :
         /\ IsEntity(objs[k])
         /\ db' = [db EXCEPT !.Entity = Entity_delete(objs[k].self, @).rows]
         /\ objs' = [objs EXCEPT
                       ![k].deleted =
                           @ \/ Entity_delete(objs[k].self, db.Entity).res.ok]
         /\ call' = [op |-> "Entity::delete",
                     res |-> Entity_delete(objs[k].self, db.Entity).res]
    /\ UNCHANGED <<text, ctor, held_node, held_state, minted, chart, machines,
                   input,
                   warehouse>>

\* Entity::select(&connection, key)
EntitySelect ==
    /\ \E key \in 1..(MaxEntities + 1) :
         call' = [op |-> "Entity::select", key |-> key,
                  res |-> Entity_select(db.Entity, key)]
    /\ UNCHANGED <<text, ctor, held_node, held_state, minted, chart, machines,
                   input, db, objs,
                   warehouse>>

NextCrud ==
    \/ EntityNew
    \/ EntityInsert
    \/ EntityUpdate
    \/ EntityDelete
    \/ EntitySelect

SpecCrud == InitDb /\ [][NextCrud]_vars

----------------------------------------------------------------------------
(* Warehouse: the state charts by NodeId and the state machines by StateId. *)
(* A HashMap is a function from the keys it holds to their values.          *)

Warehouse_new == [state_charts |-> <<>>, state_machines |-> <<>>]

\* self.state_charts.get(node_id)
get_state_chart(self, node_id) ==
    IF node_id \in DOMAIN self.state_charts
    THEN <<self.state_charts[node_id]>> ELSE <<>>

\* Keeps the chart saved before under the id of the node.
save_state_chart_vacant(self, node) ==
    [self EXCEPT !.state_charts = @ @@ (Node_id(node) :> node)]

\* self.state_charts.insert(node.id().clone(), node): the entry of the key
\* is replaced.
save_state_chart(self, node) ==
    [self EXCEPT !.state_charts = (Node_id(node) :> node) @@ @]

\* self.state_machines.get(sm_id)
get_state_machine(self, sm_id) ==
    IF sm_id \in DOMAIN self.state_machines
    THEN <<self.state_machines[sm_id]>> ELSE <<>>

\* self.state_machines.insert(machine.id().clone(), machine)
save_state_machine(self, machine) ==
    [self EXCEPT !.state_machines = (machine.id :> machine) @@ @]

\* The charts handed to the Warehouse: two ids, and under each id charts
\* that differ in their start_node and in their children.
WarehouseCharts ==
    LET a == <<"s", "c", "n", ":", "/", "/", "/", "a">>
        b == <<"s", "c", "n", ":", "/", "/", "/", "a", "/", "b">>
        leaf == [id |-> b, start_node |-> <<>>, nodes |-> <<>>]
    IN  {[id |-> id, start_node |-> start_node, nodes |-> nodes] :
            id \in {a, b}, start_node \in {<<>>, <<b>>},
            nodes \in {<<>>, <<leaf>>}}

\* The machines handed to the Warehouse: built from a chart, and two
\* machines of one id when the same UUID is drawn for both.
WarehouseMachines ==
    {StateMachine_new(state_chart, uuid).val :
        state_chart \in {c \in WarehouseCharts : c.start_node # <<>>},
        uuid \in Uuids}

InitWarehouse ==
    /\ warehouse = Warehouse_new
    /\ text = <<>>
    /\ ctor = "none"
    /\ held_node = <<>>
    /\ held_state = <<>>
    /\ call = NoCall
    /\ minted = {}
    /\ chart = NoChart
    /\ machines = <<>>
    /\ input = NoInput
    /\ db = NoRows
    /\ objs = <<>>

\* warehouse.save_state_chart(node)
WarehouseSaveStateChart ==
    /\ warehouse # NoWarehouse
    /\ \E node \in WarehouseCharts :
         /\ warehouse' = save_state_chart(warehouse, node)
         /\ call' = [op |-> "Warehouse::save_state_chart", node |-> node,
                     res |-> Ok(<<>>)]
    /\ UNCHANGED <<text, ctor, held_node, held_state, minted, chart, machines,
                   input, db, objs>>

\* warehouse.save_state_machine(machine)
WarehouseSaveStateMachine ==
    /\ warehouse # NoWarehouse
    /\ \E machine \in WarehouseMachines :
         /\ warehouse' = save_state_machine(warehouse, machine)
         /\ call' = [op |-> "Warehouse::save_state_machine",
                     machine |-> machine, res |-> Ok(<<>>)]
    /\ UNCHANGED <<text, ctor, held_node, held_state, minted, chart, machines,
                   input, db, objs>>

\* warehouse.get_state_chart(&node_id)
WarehouseGetStateChart ==
    /\ warehouse # NoWarehouse
    /\ \E node_id \in ChartIds :
         call' = [op |-> "Warehouse::get_state_chart", node_id |-> node_id,
                  res |-> get_state_chart(warehouse, node_id)]
    /\ UNCHANGED <<text, ctor, held_node, held_state, minted, chart, machines,
                   input, db, objs, warehouse>>

\* warehouse.get_state_machine(&sm_id)
WarehouseGetStateMachine ==
    /\ warehouse # NoWarehouse
    /\ \E sm_id \in {machine.id : machine \in WarehouseMachines} :
         call' = [op |-> "Warehouse::get_state_machine", sm_id |-> sm_id,
                  res |-> get_state_machine(warehouse, sm_id)]
    /\ UNCHANGED <<text, ctor, held_node, held_state, minted, chart, machines,
                   input, db, objs, warehouse>>

NextWarehouse ==
    \/ WarehouseSaveStateChart
    \/ WarehouseSaveStateMachine
    \/ WarehouseGetStateChart
    \/ WarehouseGetStateMachine

SpecWarehouse == InitWarehouse /\ [][NextWarehouse]_vars

----------------------------------------------------------------------------
Init ==
    \/ InitIds
    \/ InitMachine
    \/ InitNode
    \/ InitError
    \/ InitEngine
    \/ InitDb
    \/ InitWarehouse
Next ==
    \/ NextIds
    \/ NextMachine
    \/ NodeTryFrom
    \/ ErrorIntoValue
    \/ NextEngine
    \/ NextParam
    \/ VariableDeclarationInsert
    \/ NextCrud
    \/ NextWarehouse
Spec == Init /\ [][Next]_vars

----------------------------------------------------------------------------
(* The patterns as the specification words them: a text cut at every '/'   *)
(* into segments, each segment judged on its own.                          *)

RECURSIVE Split(_)
Split(t) ==
    IF \A i \in DOMAIN t : t[i] # "/" THEN <<t>>
    ELSE LET i == CHOOSE k \in DOMAIN t :
                    t[k] = "/" /\ \A j \in 1..(k - 1) : t[j] # "/"
         IN  <<SubSeq(t, 1, i - 1)>> \o Split(SubSeq(t, i + 1, Len(t)))

\* first is the class of the first character of the first segment.
SegmentsMatch(t, first) ==
    LET segs == Split(t)
    IN  \A i \in DOMAIN segs :
          /\ segs[i] # <<>>
          /\ segs[i][1] \in (IF i = 1 THEN first ELSE WordChars)
          /\ \A j \in DOMAIN segs[i] : segs[i][j] \in SegmentChars

MatchesNodePath(p) == SegmentsMatch(p, Letters)
ValidNodeText(n) == StartsWith(n, Scn) /\ MatchesNodePath(Drop(n, Len(Scn)))
PathOf(n) == Drop(n, Len(Scn))
ValidStateText(s) == StartsWith(s, Sms) /\ SegmentsMatch(Drop(s, Len(Sms)), WordChars)
InstanceOf(s) == Split(Drop(s, Len(Sms)))[1]
Slash == <<"/">>

----------------------------------------------------------------------------
(* Claims on the identifier scheme (SpecIds)                               *)

\* C1: for every path P that matches the NodeId path pattern,
\* NodeId::new(P).path() returns Ok(P), the path unchanged.
C1_NewPathRoundTrip ==
    (call.op = "NodeId::path" /\ ctor = "new" /\ MatchesNodePath(text))
        => call.res = Ok(text)

C1_Witness ==
    /\ call.op = "NodeId::path"
    /\ ctor = "new"
    /\ MatchesNodePath(text)
    /\ Len(Split(text)) = 2
    /\ call.res.ok

\* C2: for every path P that violates the NodeId path pattern, NodeId::new(P)
\* is built all the same, and its path() fails with InvalidNodeId carrying
\* the id that was built.
C2_InvalidPathRejected ==
    (ctor = "new" /\ ~MatchesNodePath(text))
        => /\ held_node = <<Scn \o text>>
           /\ call.op = "NodeId::path"
                => call.res = Err(InvalidNodeId(Scn \o text))

\* A first segment that starts with a digit, asked for its path.
C2_Witness ==
    /\ call.op = "NodeId::path"
    /\ ctor = "new"
    /\ Len(text) = 2
    /\ text[1] \in Digits
    /\ text[2] \in Letters
    /\ ~call.res.ok

\* C3: for every NodeId n whose path() succeeds, StateId::new(n) succeeds
\* with the text sms:///<instance>/<path of n>, which matches the StateId
\* pattern and whose id() is exactly the instance segment.
C3_NewStateIdWellFormed ==
    (call.op = "StateId::new" /\ ValidNodeText(held_node[1]))
        => /\ call.res.ok
           /\ call.res.val = Sms \o call.uuid \o Slash \o PathOf(held_node[1])
           /\ ValidStateText(call.res.val)
           /\ StateId_id(call.res.val) = Ok(call.uuid)
           /\ InstanceOf(call.res.val) = call.uuid

C3_Witness ==
    /\ call.op = "StateId::new"
    /\ ctor = "new"
    /\ MatchesNodePath(text)
    /\ Len(Split(text)) = 2
    /\ call.res.ok
    /\ held_state = <<call.res.val>>

\* C5: StateId::new(n) fails with InvalidNodeId whenever the text of n does
\* not match the NodeId pattern, and no StateId comes out of the call.
C5_NewStateIdRejects ==
    (call.op = "StateId::new" /\ ~ValidNodeText(held_node[1]))
        => /\ call.res = Err(InvalidNodeId(held_node[1]))
           /\ held_state # <<>> => InstanceOf(held_state[1]) # call.uuid

\* A NodeId taken from a text of the other scheme.
C5_Witness ==
    /\ call.op = "StateId::new"
    /\ ctor = "from"
    /\ StartsWith(text, Sms)
    /\ ~call.res.ok

\* C6: for every well-formed StateId s and valid NodeId n,
\* StateId::new_with_node(s, n) is sms:///<instance of s>/<path of n>,
\* whatever path s carries itself.
C6_NewWithNodeReusesInstance ==
    (/\ call.op = "StateId::new_with_node"
     /\ ValidStateText(held_state[1])
     /\ ValidNodeText(held_node[1]))
        => /\ call.res.ok
           /\ call.res.val = Sms \o InstanceOf(held_state[1]) \o Slash \o PathOf(held_node[1])
           /\ InstanceOf(call.res.val) = InstanceOf(held_state[1])

\* s is sms:///<uuid>/de4ult, n is another node with a nested path.
C6_Witness ==
    /\ call.op = "StateId::new_with_node"
    /\ call.res.ok
    /\ ctor = "new"
    /\ Len(Split(text)) = 2
    /\ InstanceOf(held_state[1]) \in Uuids
    /\ Len(held_state[1]) > Len(Sms) + 5
    /\ held_state[1] # call.res.val

----------------------------------------------------------------------------
(* The default-entry chain as the specification words it: from a node with *)
(* children, go to the child its start_node names, until a node without    *)
(* children is reached.                                                    *)

NamedChildren(n) ==
    {i \in DOMAIN n.nodes : n.start_node # <<>> /\ n.nodes[i].id = n.start_node[1]}

RECURSIVE DefaultEntry(_)
DefaultEntry(n) ==
    IF n.nodes = <<>> THEN [status |-> "leaf", node |-> n]
    ELSE IF n.start_node = <<>> THEN [status |-> "no_start", node |-> n]
    ELSE IF NamedChildren(n) = {} THEN [status |-> "no_child", node |-> n]
    ELSE DefaultEntry(n.nodes[CHOOSE i \in NamedChildren(n) :
                                \A j \in NamedChildren(n) : i <= j])

Machines == {machines[i] : i \in DOMAIN machines}

RECURSIVE AllIdsValid(_)
\* Every id and every start_node of the tree matches the NodeId pattern.
AllIdsValid(n) ==
    /\ ValidNodeText(n.id)
    /\ n.start_node # <<>> => ValidNodeText(n.start_node[1])
    /\ \A i \in DOMAIN n.nodes : AllIdsValid(n.nodes[i])

----------------------------------------------------------------------------
(* Claims on StateMachine::new (SpecMachine)                               *)

\* C4: two calls of StateId::new with the same valid NodeId yield different
\* StateIds, so two machines built from the same chart share neither their
\* id nor their current_state.
C4_InstancesDistinct ==
    \A i, j \in DOMAIN machines :
        i # j => /\ machines[i].id # machines[j].id
                 /\ machines[i].current_state # machines[j].current_state
                 /\ InstanceOf(machines[i].id) # InstanceOf(machines[j].id)

C4_Witness ==
    /\ Len(machines) >= 2
    /\ machines[1].state_chart = machines[2].state_chart
    /\ machines[1].state_chart.nodes # <<>>

\* C7: for every chart whose root id and start_node are valid NodeIds,
\* StateMachine::new succeeds, current_state is
\* sms:///<instance of the machine id>/<path of start_node>, and the id and
\* the current_state of the machine share the instance segment.
C7_CurrentStateAddressesStartNode ==
    (/\ call.op = "StateMachine::new"
     /\ ValidNodeText(chart[1].id)
     /\ chart[1].start_node # <<>>
     /\ ValidNodeText(chart[1].start_node[1]))
        => /\ call.res.ok
           /\ call.res.val.id = Sms \o call.uuid \o Slash \o PathOf(chart[1].id)
           /\ call.res.val.current_state =
                 Sms \o InstanceOf(call.res.val.id) \o Slash \o PathOf(chart[1].start_node[1])
           /\ InstanceOf(call.res.val.current_state) = InstanceOf(call.res.val.id)
           /\ call.res.val.state_chart = chart[1]
           /\ machines # <<>>
           /\ machines[Len(machines)] = call.res.val

\* The chart of the specification: a root, its start node one of its children.
C7_Witness ==
    /\ call.op = "StateMachine::new"
    /\ call.res.ok
    /\ chart[1].nodes # <<>>
    /\ chart[1].start_node = <<chart[1].nodes[1].id>>
    /\ chart[1].start_node # <<chart[1].id>>
    /\ machines = <<call.res.val>>

\* C8: StateMachine::new fails with NoRoot, and returns no machine, when a
\* node with children on the default-entry chain (the root included) has no
\* start_node.  Stated for the charts all of whose ids are valid.
C8_UnresolvedChainIsNoRoot ==
    (/\ call.op = "StateMachine::new"
     /\ AllIdsValid(chart[1])
     /\ DefaultEntry(chart[1]).status = "no_start")
        => /\ call.res = Err(NoRoot)
           /\ machines = <<>>

\* C9: after a successful StateMachine::new, current_state addresses the
\* node without children in which the default-entry chain of the root ends.
\* Stated for the charts whose root has children and whose ids are valid.
C9_CurrentStateIsChainLeaf ==
    \A m \in Machines :
        LET entry == DefaultEntry(m.state_chart)
        IN  (/\ m.state_chart.nodes # <<>>
             /\ AllIdsValid(m.state_chart)
             /\ entry.status = "leaf")
                => m.current_state =
                     Sms \o InstanceOf(m.id) \o Slash \o PathOf(entry.node.id)

\* C10: in every machine StateMachine::new returns, the start_node of the
\* root names one of the children of the root.  Stated for the charts whose
\* root has children and whose ids are valid.
C10_StartNodeNamesChild ==
    \A m \in Machines :
        (m.state_chart.nodes # <<>> /\ AllIdsValid(m.state_chart))
            => NamedChildren(m.state_chart) # {}

----------------------------------------------------------------------------
(* Claims on the construction of a Node (SpecNode)                          *)

\* The keys whose values are arrays, in the order the build reads them, and
\* the result of building one element of the array under a key.
ArrayKeys == <<"out-transitions", "attributes", "nodes">>

ElementResult(key, element) ==
    CASE key = "out-transitions" -> Transition_try_from(element)
      [] key = "attributes" -> VariableDeclaration_try_from(element)
      [] key = "nodes" -> Node_try_from(element)

\* The positions of the array under key whose element does not build.
FailingAt(object, key) ==
    IF key \in DOMAIN object.map /\ object.map[key].tag = "Array"
    THEN {i \in DOMAIN object.map[key].items :
             ~ElementResult(key, object.map[key].items[i]).ok}
    ELSE {}

RECURSIVE HasFailingElement(_)
\* Some element of an array of the object, or of a node below it, does not
\* build.
HasFailingElement(object) ==
    /\ object.tag = "Object"
    /\ \/ \E j \in DOMAIN ArrayKeys : FailingAt(object, ArrayKeys[j]) # {}
       \/ /\ "nodes" \in DOMAIN object.map
          /\ object.map["nodes"].tag = "Array"
          /\ \E i \in DOMAIN object.map["nodes"].items :
                HasFailingElement(object.map["nodes"].items[i])

\* on-entry, on-exit, description and start-node are absent or build.
ScalarsBuild(object) ==
    /\ \A k \in {"on-entry", "on-exit"} \cap DOMAIN object.map :
          ActionCall_try_from(object.map[k]).ok
    /\ "description" \in DOMAIN object.map => object.map["description"].tag = "String"
    /\ "start-node" \in DOMAIN object.map => object.map["start-node"].tag = "String"

\* C11: building a Node from an object whose only key is id, a string,
\* succeeds: the id of the node is that string, description, on_entry,
\* on_exit and start_node are none, out_transitions, attributes (the
\* variables) and nodes are empty.
C11_MinimalObjectBuilds ==
    (/\ call.op = "Node::try_from"
     /\ input.tag = "Object"
     /\ DOMAIN input.map = {"id"}
     /\ input.map["id"].tag = "String")
        => call.res = [ok |-> TRUE,
                       val |-> [id |-> input.map["id"].str,
                                description |-> <<>>,
                                on_entry |-> <<>>,
                                on_exit |-> <<>>,
                                start_node |-> <<>>,
                                out_transitions |-> <<>>,
                                attributes |-> <<>>,
                                nodes |-> <<>>]]

C11_Witness ==
    /\ call.op = "Node::try_from"
    /\ input = VObject([id |-> VString(IdA)])
    /\ call.res.ok
    /\ call.res.val.id = IdA

\* C12 as stated: building a Node from any object without the key id fails
\* with MandatoryAttributeMissing("id"), whatever the other keys contain.
C12_MissingIdAlwaysReported ==
    (/\ call.op = "Node::try_from"
     /\ input.tag = "Object"
     /\ "id" \notin DOMAIN input.map)
        => call.res = Err(MandatoryAttributeMissing("id"))

\* C12 amended: building a Node from any object without the key id fails;
\* the error is MandatoryAttributeMissing("id") whenever on-entry, on-exit,
\* description, start-node and out-transitions are absent or build,
\* whatever attributes and nodes contain.
C12_MissingIdReportedAfterEarlierFields ==
    (/\ call.op = "Node::try_from"
     /\ input.tag = "Object"
     /\ "id" \notin DOMAIN input.map)
        => /\ ~call.res.ok
           /\ (/\ ScalarsBuild(input)
               /\ "out-transitions" \in DOMAIN input.map =>
                     /\ input.map["out-transitions"].tag = "Array"
                     /\ FailingAt(input, "out-transitions") = {})
                 => call.res = Err(MandatoryAttributeMissing("id"))

\* No id, every earlier field present and well formed, attributes and nodes
\* malformed.
C12_Witness ==
    /\ call.op = "Node::try_from"
    /\ input.tag = "Object"
    /\ DOMAIN input.map = {"on-entry", "on-exit", "description", "start-node",
                         "out-transitions", "attributes", "nodes"}
    /\ input.map["attributes"] = VArray(<<Sample.VariableNoType>>)
    /\ input.map["nodes"] = VArray(<<Sample.ChildBadTransition>>)
    /\ ScalarsBuild(input)
    /\ FailingAt(input, "out-transitions") = {}
    /\ call.res = Err(MandatoryAttributeMissing("id"))

\* C13: Node construction is all-or-nothing and fails fast.  If any element
\* of an out-transitions, attributes or nodes array, at any depth, does not
\* build, the build of the root fails and returns an error only, no Node.
\* When the id and the fields before the arrays build, the error is that of
\* the first element that does not build, in the first of the arrays
\* out-transitions, attributes, nodes that holds one: the elements after it
\* have no part in the result.
C13_FirstFailingElementAborts ==
    (call.op = "Node::try_from" /\ input.tag = "Object")
        => /\ HasFailingElement(input)
                => ~call.res.ok /\ DOMAIN call.res = {"ok", "err"}
           /\ \A j \in DOMAIN ArrayKeys :
                LET key == ArrayKeys[j]
                    failing == FailingAt(input, key)
                    first == CHOOSE i \in failing : \A k \in failing : i <= k
                IN  (/\ ScalarsBuild(input)
                     /\ "id" \in DOMAIN input.map
                     /\ input.map["id"].tag = "String"
                     /\ \A k \in 1..3 :
                          ArrayKeys[k] \in DOMAIN input.map
                              => input.map[ArrayKeys[k]].tag = "Array"
                     /\ \A k \in 1..(j - 1) : FailingAt(input, ArrayKeys[k]) = {}
                     /\ failing # {})
                        => call.res =
                             Err(ElementResult(key, input.map[key].items[first]).err)

\* A good child, then a child that fails two levels down, then a child
\* without id: the error is that of the second.
C13_Witness ==
    /\ call.op = "Node::try_from"
    /\ input.tag = "Object"
    /\ "nodes" \in DOMAIN input.map
    /\ input.map["nodes"] = VArray(<<Sample.LeafB, Sample.ChildDeep, Sample.ChildNoId>>)
    /\ call.res = Err(MandatoryAttributeMissing("guard"))

----------------------------------------------------------------------------
(* Claims on the conversion of an error into a response value (SpecError)   *)

\* The number the specification gives each variant.
ErrorNumbers ==
    [MandatoryAttributeMissing |-> 0, UnexpectedType |-> 1,
     ValidationError |-> 2, InvalidNodeId |-> 3, InvalidStateId |-> 4,
     NoRoot |-> 5]

\* C14: converting any StateChartError into a response value yields an
\* object with exactly the keys id, an integer, and message, a string; the
\* id is the number of the variant of the error, whatever the error
\* carries, and no two variants share a number.
C14_ErrorValueHasIdAndMessage ==
    /\ \A k1, k2 \in DOMAIN ErrorNumbers :
          k1 # k2 => ErrorNumbers[k1] # ErrorNumbers[k2]
    /\ call.op = "Value::from"
          => /\ call.res.tag = "Object"
             /\ DOMAIN call.res.map = {"id", "message"}
             /\ call.res.map["id"].tag = "Integer"
             /\ call.res.map["message"].tag = "String"
             /\ call.res.map["id"].int = ErrorNumbers[input.kind]

\* The last variant, converted.
C14_Witness ==
    /\ call.op = "Value::from"
    /\ input = NoRoot
    /\ call.res.map["id"].int = 5
    /\ call.res.map["message"].str = <<"State chart is no root.">>

----------------------------------------------------------------------------
(* Claims on the requests to a running machine (SpecEngine)                 *)

RECURSIVE PathTo(_, _)
\* The nodes from n down to the node with the id, <<>> when n holds none.
PathTo(n, id) ==
    IF n.id = id THEN <<n>>
    ELSE IF \E i \in DOMAIN n.nodes : PathTo(n.nodes[i], id) # <<>>
    THEN <<n>> \o PathTo(n.nodes[CHOOSE i \in DOMAIN n.nodes :
                                     PathTo(n.nodes[i], id) # <<>>], id)
    ELSE <<>>

\* The id of the node current_state addresses, and the StateId of a node in
\* the instance of a machine.
ActiveId(m) ==
    Scn \o Drop(m.current_state,
                Len(Sms) + Len(InstanceOf(m.current_state)) + 1)
StateAt(m, node_id) == Sms \o InstanceOf(m.id) \o Slash \o PathOf(node_id)

\* The nodes from the root down to the active node of the machine.
ActiveLineage(m) == PathTo(m.state_chart, ActiveId(m))
ActiveNode(m) == ActiveLineage(m)[Len(ActiveLineage(m))]

\* The transitions an event selects: the first whose guard is that event.
EventMatches(transition, event_id) ==
    transition.guard.variant = "Event" /\ transition.guard.event = event_id
Selected(node, event_id) ==
    {k \in DOMAIN node.out_transitions :
        /\ EventMatches(node.out_transitions[k], event_id)
        /\ \A j \in 1..(k - 1) : ~EventMatches(node.out_transitions[j], event_id)}
SelectedTransition(node, event_id) ==
    node.out_transitions[CHOOSE k \in Selected(node, event_id) : TRUE]

\* The calls of a commit from the lineage of the active node to the lineage
\* of the target: on_exit from the active node up to the child of the
\* nearest common ancestor, the action of the transition, on_entry from the
\* child of the common ancestor down to the target.
CommonDepth(from, to) ==
    CHOOSE c \in 0..Len(from) :
        /\ c < Len(from) /\ c < Len(to)
        /\ \A j \in 1..c : from[j].id = to[j].id
        /\ \A d \in (c + 1)..Len(from) :
              ~(d < Len(from) /\ d < Len(to) /\ \A j \in 1..d : from[j].id = to[j].id)
Reversed(s) == [j \in DOMAIN s |-> s[Len(s) + 1 - j]]
RECURSIVE Flatten(_)
Flatten(options) ==
    IF options = <<>> THEN <<>> ELSE options[1] \o Flatten(Tail(options))
ExpectedCalls(from, to, transition) ==
    LET c == CommonDepth(from, to)
        vacated == Reversed(SubSeq(from, c + 1, Len(from)))
        entered == SubSeq(to, c + 1, Len(to))
    IN  Flatten([j \in DOMAIN vacated |-> vacated[j].on_exit])
        \o transition.action
        \o Flatten([j \in DOMAIN entered |-> entered[j].on_entry])

\* An entry of the log for an event.
LogEntry_Event(event_id) == [entry |-> "Event", name |-> event_id]

\* A response that carries an error value.
Failed(response) ==
    /\ response.content # <<>>
    /\ response.content[1].tag = "Object"
    /\ "id" \in DOMAIN response.content[1].map

\* C15: send(event_id) selects the first transition of the active node, in
\* declared order, whose guard is Event(event_id), skipping predicate guards
\* and other events before it and leaving the transitions after it aside;
\* after the call current_state of the machine addresses the target of the
\* selected transition.
C15_SendCommitsFirstMatch ==
    [][\A i \in DOMAIN machines :
         (/\ call'.op = "POST /send"
          /\ call'.machine = i
          /\ ActiveLineage(machines[i]) # <<>>
          /\ Selected(ActiveNode(machines[i]), call'.event) # {})
            => machines'[i].current_state =
                 StateAt(machines[i],
                         SelectedTransition(ActiveNode(machines[i]),
                                            call'.event).to)]_vars

\* C16: when a transition is committed, the calls are, in this order, the
\* on_exit of the active node and of every vacated ancestor, innermost
\* first, below the nearest common ancestor of the active node and the
\* target; the action of the transition if it has one; the on_entry of
\* every entered node from below the common ancestor down to the target,
\* outermost first; and current_state is the target after these calls.
C16_CommitCallsInOrder ==
    [][\A i \in DOMAIN machines :
         (/\ call'.op = "POST /send"
          /\ call'.machine = i
          /\ ActiveLineage(machines[i]) # <<>>
          /\ Selected(ActiveNode(machines[i]), call'.event) # {}
          /\ PathTo(machines[i].state_chart,
                    SelectedTransition(ActiveNode(machines[i]),
                                       call'.event).to) # <<>>)
            => /\ call'.executed =
                    ExpectedCalls(
                        ActiveLineage(machines[i]),
                        PathTo(machines[i].state_chart,
                               SelectedTransition(ActiveNode(machines[i]),
                                                  call'.event).to),
                        SelectedTransition(ActiveNode(machines[i]),
                                           call'.event))
               /\ machines'[i].current_state =
                    StateAt(machines[i],
                            SelectedTransition(ActiveNode(machines[i]),
                                               call'.event).to)]_vars

\* C17: set_variable(name, value) on a name that no node from the active
\* node up to the root declares fails, and leaves current_state and the
\* whole machine as they were before the call.
C17_UndeclaredVariableFails ==
    [][\A i \in DOMAIN machines :
         (/\ call'.op = "POST /set-var"
          /\ call'.machine = i
          /\ ActiveLineage(machines[i]) # <<>>
          /\ \A j \in DOMAIN ActiveLineage(machines[i]) :
               \A k \in DOMAIN ActiveLineage(machines[i])[j].attributes :
                  ActiveLineage(machines[i])[j].attributes[k].name
                      # call'.variable)
            => /\ Failed(call'.response)
               /\ machines' = machines]_vars

\* C18: dispatching an event that matches no out-transition of the active
\* node leaves current_state and the whole machine unchanged, and appends
\* exactly one Event entry, for that event, to the log.
C18_UnmatchedEventIsLogged ==
    [][\A i \in DOMAIN machines :
         (/\ call'.op = "POST /send"
          /\ call'.machine = i
          /\ ActiveLineage(machines[i]) # <<>>
          /\ Selected(ActiveNode(machines[i]), call'.event) = {})
            => /\ machines' = machines
               /\ call'.logged = <<LogEntry_Event(call'.event)>>]_vars


----------------------------------------------------------------------------
(* C19: for every Parameter p, whatever the variant of its value (String,   *)
(* Integer, Number, Boolean, None), Parameter::select with the key that     *)
(* p.insert returned yields a Parameter with the name of p and a value      *)
(* equal to the value of p, and Parameter::select with a key that no insert *)
(* returned yields Ok(None).                                                *)

\* The Parameters whose insert returned the key.
InsertedWith(key) ==
    {k \in DOMAIN objs : IsParameter(objs[k]) /\ objs[k].id = <<key>>}

C19_InsertSelectRoundTrip ==
    call.op = "Parameter::select" =>
        IF InsertedWith(call.key) = {} THEN call.res = Ok(<<>>)
        ELSE \A k \in InsertedWith(call.key) :
                 /\ call.res.ok
                 /\ call.res.val # <<>>
                 /\ call.res.val[1].name = objs[k].name
                 /\ call.res.val[1].value = objs[k].value

----------------------------------------------------------------------------
(* C20: for the reference Crud entity, over any sequence of operations on   *)
(* distinct entities, select by the key of an entity returns the attribute  *)
(* values of the most recent insert or update of that entity, whatever was  *)
(* inserted or updated for other entities, and returns None once the entity *)
(* has been deleted.                                                        *)

\* The entities whose insert gave them the key.
KeyedBy(key) ==
    {k \in DOMAIN objs : IsEntity(objs[k]) /\ objs[k].self.id = <<key>>}

C20_SelectFollowsOwnEntity ==
    call.op = "Entity::select" =>
        \A k \in KeyedBy(call.key) :
            IF objs[k].deleted THEN call.res = Ok(<<>>)
            ELSE /\ call.res.ok
                 /\ call.res.val # <<>>
                 /\ call.res.val[1].attribute_1 = objs[k].self.attribute_1
                 /\ call.res.val[1].attribute_2 = objs[k].self.attribute_2

----------------------------------------------------------------------------
(* C21: the value_type stored with a persisted Parameter is always one of   *)
(* "string", "integer", "bool", "number", "none", for every variant of the  *)
(* value the Parameter carries.                                             *)
C21_StoredTypeIsListed ==
    \A rowid \in DOMAIN db.Parameter :
        db.Parameter[rowid]["value_type"].text
            \in {"string", "integer", "bool", "number", "none"}

----------------------------------------------------------------------------
(* C22: the lists built from input arrays keep length and order.  For       *)
(* out-transitions, attributes, nodes and the parameters of a call, the     *)
(* list has as many elements as the array, and its i-th element is the      *)
(* value built from the i-th element of the array.                          *)

\* The list is, element by element, what the elements of the array build.
BuiltInOrder(list, array, key) ==
    /\ Len(list) = Len(array.items)
    /\ \A i \in DOMAIN array.items :
          IF key = "parameters"
          THEN Ok(list[i]) = Parameter_try_from(array.items[i])
          ELSE Ok(list[i]) = ElementResult(key, array.items[i])

C22_ListsKeepLengthAndOrder ==
    (call.op = "Node::try_from" /\ call.res.ok)
        => /\ "out-transitions" \in DOMAIN input.map =>
                BuiltInOrder(call.res.val.out_transitions,
                             input.map["out-transitions"], "out-transitions")
           /\ "attributes" \in DOMAIN input.map =>
                BuiltInOrder(call.res.val.attributes,
                             input.map["attributes"], "attributes")
           /\ "nodes" \in DOMAIN input.map =>
                BuiltInOrder(call.res.val.nodes, input.map["nodes"], "nodes")
           /\ "on-entry" \in DOMAIN input.map =>
                BuiltInOrder(call.res.val.on_entry[1].parameters,
                             input.map["on-entry"].map["parameters"],
                             "parameters")
           /\ "on-exit" \in DOMAIN input.map =>
                BuiltInOrder(call.res.val.on_exit[1].parameters,
                             input.map["on-exit"].map["parameters"],
                             "parameters")

\* Three parameters, the first and the last alike, built in their order.
C22_Witness ==
    /\ call.op = "Node::try_from"
    /\ input.tag = "Object"
    /\ "on-entry" \in DOMAIN input.map
    /\ input.map["on-entry"].map["parameters"] =
           VArray(<<Sample.OtherParameter, Sample.GoodParameter,
                    Sample.OtherParameter>>)
    /\ call.res.ok
    /\ Len(call.res.val.on_entry[1].parameters) = 3
    /\ call.res.val.on_entry[1].parameters[1].name = <<"q">>
    /\ call.res.val.on_entry[1].parameters[2].name = <<"p">>
    /\ call.res.val.on_entry[1].parameters[3].name = <<"q">>

----------------------------------------------------------------------------
\* The guard of the only transition of a root that holds nothing but its id
\* and that transition, a transition to a node without an action.
OneGuard ==
    /\ call.op = "Node::try_from"
    /\ input.tag = "Object"
    /\ DOMAIN input.map = {"id", "out-transitions"}
    /\ input.map["id"].tag = "String"
    /\ input.map["out-transitions"].tag = "Array"
    /\ Len(input.map["out-transitions"].items) = 1
    /\ input.map["out-transitions"].items[1].tag = "Object"
    /\ DOMAIN input.map["out-transitions"].items[1].map = {"guard", "to"}
    /\ input.map["out-transitions"].items[1].map["to"].tag = "String"

TheGuard == input.map["out-transitions"].items[1].map["guard"]

BuiltGuard == call.res.val.out_transitions[1].guard

\* A string builds the event of that string, a variant that is neither a
\* string nor an object is an UnexpectedType.
GuardByVariant ==
    /\ TheGuard.tag = "String"
           => call.res.ok /\ BuiltGuard = [variant |-> "Event", event |-> TheGuard.str]
    /\ TheGuard.tag \in {"Integer", "Number", "Bool", "None", "Array"}
           => call.res = Err(UnexpectedType)

\* An object with a name and parameters that build is the predicate of that
\* name and those parameters.
GuardOfObject ==
    (/\ TheGuard.tag = "Object"
     /\ {"name", "parameters"} \subseteq DOMAIN TheGuard.map
     /\ TheGuard.map["name"].tag = "String"
     /\ parameters_from_validated_values(TheGuard.map["parameters"]).ok)
        => /\ call.res.ok
           /\ BuiltGuard.variant = "Predicate"
           /\ BuiltGuard.call.name = TheGuard.map["name"].str
           /\ Ok(BuiltGuard.call.parameters)
                  = parameters_from_validated_values(TheGuard.map["parameters"])

\* C23 as stated: the guard is decided by the variant alone: a string is
\* the event of that string, an object the predicate of its name and
\* parameters, an object without name or without parameters fails with
\* MandatoryAttributeMissing, every other variant with UnexpectedType.
C23_AbsentNameOrParametersIsMissing ==
    OneGuard
        => /\ GuardByVariant
           /\ GuardOfObject
           /\ (/\ TheGuard.tag = "Object"
               /\ ~({"name", "parameters"} \subseteq DOMAIN TheGuard.map))
                  => /\ ~call.res.ok
                     /\ call.res.err.kind = "MandatoryAttributeMissing"

\* C23 amended: a string builds the event of that string, an object with a
\* name and parameters that build is the predicate of them, every other
\* variant fails with UnexpectedType; an object without a name fails with
\* MandatoryAttributeMissing of name, and an object without parameters
\* fails with MandatoryAttributeMissing of parameters when its name is a
\* string: a name that is no string is reported first.
C23_GuardByVariantAndFirstProblem ==
    OneGuard
        => /\ GuardByVariant
           /\ GuardOfObject
           /\ (TheGuard.tag = "Object" /\ "name" \notin DOMAIN TheGuard.map)
                  => call.res = Err(MandatoryAttributeMissing("name"))
           /\ (/\ TheGuard.tag = "Object"
               /\ "name" \in DOMAIN TheGuard.map
               /\ "parameters" \notin DOMAIN TheGuard.map)
                  => call.res =
                         IF TheGuard.map["name"].tag = "String"
                         THEN Err(MandatoryAttributeMissing("parameters"))
                         ELSE Err(ValidationError("not a string"))

\* An object without parameters whose name is a string was refused for the
\* missing parameters.
C23_Witness ==
    /\ OneGuard
    /\ TheGuard = VObject([name |-> VString(<<"i", "s">>)])
    /\ call.res = Err(MandatoryAttributeMissing("parameters"))

----------------------------------------------------------------------------
\* The value of the only variable of a root that holds nothing but its id
\* and that variable, a declaration with a name and a type.
OneVariable ==
    /\ call.op = "Node::try_from"
    /\ input.tag = "Object"
    /\ DOMAIN input.map = {"id", "attributes"}
    /\ input.map["id"].tag = "String"
    /\ input.map["attributes"].tag = "Array"
    /\ Len(input.map["attributes"].items) = 1
    /\ input.map["attributes"].items[1].tag = "Object"
    /\ DOMAIN input.map["attributes"].items[1].map = {"name", "type", "value"}
    /\ input.map["attributes"].items[1].map["name"].tag = "String"
    /\ input.map["attributes"].items[1].map["type"].tag = "String"

TheValue == input.map["attributes"].items[1].map["value"]

BuiltValue == call.res.val.attributes[1].value

\* C24: the conversion of a generic value into a VariableValue keeps the tag
\* and the payload of a String, an Integer, a Number, a Bool (as Boolean)
\* and a None, and fails with UnexpectedType for an Array and an Object;
\* the default VariableValue is None.
C24_ScalarsKeptOthersRefused ==
    /\ VariableValue_default = [variant |-> "None"]
    /\ OneVariable
           => CASE TheValue.tag = "String" ->
                      /\ call.res.ok
                      /\ BuiltValue = [variant |-> "String", str |-> TheValue.str]
                [] TheValue.tag = "Integer" ->
                      /\ call.res.ok
                      /\ BuiltValue = [variant |-> "Integer", int |-> TheValue.int]
                [] TheValue.tag = "Number" ->
                      /\ call.res.ok
                      /\ BuiltValue = [variant |-> "Number", num |-> TheValue.num]
                [] TheValue.tag = "Bool" ->
                      /\ call.res.ok
                      /\ BuiltValue = [variant |-> "Boolean", bool |-> TheValue.bool]
                [] TheValue.tag = "None" ->
                      /\ call.res.ok
                      /\ BuiltValue = [variant |-> "None"]
                [] TheValue.tag \in {"Array", "Object"} ->
                      call.res = Err(UnexpectedType)

\* An array as the value of a variable was refused.
C24_Witness ==
    /\ OneVariable
    /\ TheValue = VArray(<<VInteger(7)>>)
    /\ call.res = Err(UnexpectedType)

----------------------------------------------------------------------------
\* C25: after VariableDeclaration::create, the insert of a
\* VariableDeclaration succeeds and gives it an id, whatever the variant of
\* its value: the column of the value is a column of the table.
C25_InsertSucceedsForEveryVariant ==
    call.op = "VariableDeclaration::insert"
        => /\ call.res.ok
           /\ objs[Len(objs)].id = <<call.res.val>>
           /\ VariableValue_get_column_name(call.self.value)
                  \in DOMAIN VariableDeclaration_create

----------------------------------------------------------------------------
\* C26: get_state_chart(id) returns the chart saved last under the id and
\* None for an id never saved: no id has a chart in a new Warehouse, a save
\* makes its node the chart of the id of the node, whatever was saved under
\* that id before, and leaves the chart of every other id; a save of a
\* chart leaves the state machines, a save of a machine the state charts.
C26_LastSavedChartIsReturned ==
    [][/\ warehouse = Warehouse_new
           => \A node_id \in ChartIds : get_state_chart(warehouse, node_id) = <<>>
       /\ call'.op = "Warehouse::save_state_chart" /\ warehouse # NoWarehouse
           => /\ get_state_chart(warehouse', call'.node.id) = <<call'.node>>
              /\ \A node_id \in ChartIds \ {call'.node.id} :
                    get_state_chart(warehouse', node_id)
                        = get_state_chart(warehouse, node_id)
              /\ warehouse'.state_machines = warehouse.state_machines
       /\ call'.op = "Warehouse::save_state_machine" /\ warehouse # NoWarehouse
           => warehouse'.state_charts = warehouse.state_charts
       /\ call'.op = "Warehouse::get_state_chart"
           => call'.res = get_state_chart(warehouse', call'.node_id)]_vars

\* A chart was saved under an id that held another chart, a machine is
\* saved too, and the chart saved last is the one returned.
C26_Witness ==
    /\ warehouse # NoWarehouse
    /\ call.op = "Warehouse::get_state_chart"
    /\ call.res # <<>>
    /\ call.res[1].start_node # <<>>
    /\ call.res[1].nodes = <<>>
    /\ DOMAIN warehouse.state_machines # {}
    /\ Cardinality(DOMAIN warehouse.state_charts) = 2

----------------------------------------------------------------------------
RECURSIVE NamesSelfOrAncestor(_, _)
\* A node of the tree names itself or one of the ids above it (above holds
\* the ids of its ancestors) as its start_node.
NamesSelfOrAncestor(node, above) ==
    \/ node.start_node # <<>> /\ node.start_node[1] \in above \cup {node.id}
    \/ \E i \in DOMAIN node.nodes :
          NamesSelfOrAncestor(node.nodes[i], above \cup {node.id})

\* C27: StateMachine::new returns for every chart, the charts whose
\* start_node references form a cycle included: the call ends with a
\* machine of the chart or with one of the errors InvalidNodeId and NoRoot.
C27_NewReturnsOnEveryChart ==
    call.op = "StateMachine::new"
        => \/ /\ call.res.ok
              /\ call.res.val.state_chart = chart[1]
           \/ /\ ~call.res.ok
              /\ "err" \in DOMAIN call.res
              /\ call.res.err.kind \in {"InvalidNodeId", "NoRoot"}

\* The call returned a machine for a root that names itself as start_node.
C27_Witness ==
    /\ call.op = "StateMachine::new"
    /\ chart[1].start_node = <<chart[1].id>>
    /\ NamesSelfOrAncestor(chart[1], {})
    /\ call.res.ok

----------------------------------------------------------------------------
\* C29: StateMachine::new checks the id of the root, then the presence of
\* start_node, then the id of start_node: a malformed root id is an
\* InvalidNodeId of the root with or without a start_node, a valid root id
\* without start_node is NoRoot whether the root has children or not, a
\* valid root id with a malformed start_node is an InvalidNodeId of the
\* start_node; a failing call returns no machine.
C29_ChecksRootThenStartNode ==
    [][call'.op = "StateMachine::new" /\ chart # <<>>
        => LET root == chart[1]
           IN  /\ ~NodeId_path(root.id).ok
                      => call'.res = Err(InvalidNodeId(root.id))
               /\ NodeId_path(root.id).ok /\ root.start_node = <<>>
                      => call'.res = Err(NoRoot)
               /\ (/\ NodeId_path(root.id).ok
                   /\ root.start_node # <<>>
                   /\ ~NodeId_path(root.start_node[1]).ok)
                      => call'.res = Err(InvalidNodeId(root.start_node[1]))
               /\ ~call'.res.ok => machines' = machines]_vars

\* A root with a malformed id and a start_node was refused for its id, and
\* no machine was built.
C29_Witness ==
    /\ call.op = "StateMachine::new"
    /\ ~NodeId_path(chart[1].id).ok
    /\ chart[1].start_node # <<>>
    /\ call.res = Err(InvalidNodeId(chart[1].id))
    /\ machines = <<>>

----------------------------------------------------------------------------
\* The keys of a Node in the order the build examines them.
FieldOrder ==
    <<"on-entry", "on-exit", "description", "start-node", "out-transitions",
      "id", "attributes", "nodes">>

\* The outcome of the field under the key, taken by itself.
FieldAlone(object, key) ==
    CASE key = "id" ->
             IF key \in DOMAIN object.map THEN NodeId_try_from(object.map[key])
             ELSE Err(MandatoryAttributeMissing("id"))
      [] key = "attributes" ->
             attributes_from_validated_value(get(object.map, key))
      [] key = "nodes" -> nodes_from_validated_value(get(object.map, key))
      [] key \notin DOMAIN object.map -> Ok(<<>>)
      [] key \in {"on-entry", "on-exit"} -> ActionCall_try_from(object.map[key])
      [] key = "description" -> String_try_from(object.map[key])
      [] key = "start-node" -> NodeId_try_from(object.map[key])
      [] key = "out-transitions" ->
             transitions_from_validated_value(object.map[key])

\* C28: of the problems of an input object the build of a Node reports the
\* one of the field examined first in the order on-entry, on-exit,
\* description, start-node, out-transitions, id, attributes, nodes: a
\* malformed field before id is reported in preference to a missing id, a
\* missing id in preference to malformed attributes or nodes.
C28_FirstFieldInOrderIsReported ==
    (call.op = "Node::try_from" /\ input.tag = "Object")
        => \A i \in DOMAIN FieldOrder :
              (/\ ~FieldAlone(input, FieldOrder[i]).ok
               /\ \A j \in 1..(i - 1) : FieldAlone(input, FieldOrder[j]).ok)
                  => call.res = Err(FieldAlone(input, FieldOrder[i]).err)

\* No id, a malformed on-exit, malformed attributes and nodes: the error is
\* the one of on-exit.
C28_Witness ==
    /\ call.op = "Node::try_from"
    /\ input.tag = "Object"
    /\ "id" \notin DOMAIN input.map
    /\ "on-entry" \notin DOMAIN input.map
    /\ "on-exit" \in DOMAIN input.map
    /\ input.map["on-exit"] = Sample.ActionNoParameters
    /\ "attributes" \in DOMAIN input.map
    /\ ~FieldAlone(input, "attributes").ok
    /\ "nodes" \in DOMAIN input.map
    /\ ~FieldAlone(input, "nodes").ok
    /\ call.res = Err(MandatoryAttributeMissing("parameters"))

====
